---- MODULE Spec2Model ----
(***************************************************************************)
(* Project store, file tree store and generation orchestrator of the       *)
(* ai-app-forge server (server/src/handlers/*.ts over server/src/db/        *)
(* schema.ts).  Every handler is a sequence of awaited store statements;    *)
(* each statement is one atomic step of the request that runs it, and       *)
(* requests of different clients interleave between statements.             *)
(*                                                                          *)
(* Strings are sequences of one-character strings, so that the slug         *)
(* derivation, the SQL LIKE match and the path split are computed as the    *)
(* code computes them.                                                      *)
(***************************************************************************)
EXTENDS Integers, Sequences, FiniteSets, TLC

\* SQL NULL / JavaScript null for a nullable text column.  It is a sequence
\* whose single element is no character, so it compares with every string.
NULL == <<"null">>

----------------------------------------------------------------------------
(* Characters and string helpers *)

LowerLetters ==
  {"a","b","c","d","e","f","g","h","i","j","k","l","m",
   "n","o","p","q","r","s","t","u","v","w","x","y","z"}

Digits == {"0","1","2","3","4","5","6","7","8","9"}

Whitespace == {" ", "\t", "\n"}

\* String.prototype.toLowerCase on one character (the upper-case letters the
\* inputs below use).
LowerChar(c) ==
  CASE c = "A" -> "a" [] c = "B" -> "b" [] c = "C" -> "c" [] c = "D" -> "d"
    [] c = "E" -> "e" [] c = "F" -> "f" [] c = "M" -> "m" [] c = "P" -> "p"
    [] c = "R" -> "r" [] c = "S" -> "s" [] c = "T" -> "t" [] c = "U" -> "u"
    [] OTHER -> c

toLowerCase(s) == [i \in 1..Len(s) |-> LowerChar(s[i])]

\* s.startsWith(p)
startsWith(s, p) == Len(p) <= Len(s) /\ SubSeq(s, 1, Len(p)) = p

\* s.endsWith(p)
endsWith(s, p) ==
  Len(p) <= Len(s) /\ SubSeq(s, Len(s) - Len(p) + 1, Len(s)) = p

\* A test for a prefix where a test for a substring is meant.
includesMutant(s, p) == startsWith(s, p)

\* s.includes(p)
includes(s, p) ==
  \E i \in 0..(Len(s) - Len(p)) : SubSeq(s, i + 1, i + Len(p)) = p

\* Decimal rendering of a non-negative integer, as template-literal
\* interpolation `${counter}` renders it.
DigitChar(d) ==
  CASE d = 0 -> "0" [] d = 1 -> "1" [] d = 2 -> "2" [] d = 3 -> "3"
    [] d = 4 -> "4" [] d = 5 -> "5" [] d = 6 -> "6" [] d = 7 -> "7"
    [] d = 8 -> "8" [] OTHER -> "9"

RECURSIVE NumberToString(_)
NumberToString(n) ==
  IF n < 10 THEN <<DigitChar(n)>>
  ELSE NumberToString(n \div 10) \o <<DigitChar(n % 10)>>

----------------------------------------------------------------------------
(* Slug derivation: create_project.ts 19-23 and update_project.ts 27-29 *)

\* .replace(/\s+/g, '-') : every maximal run of whitespace becomes one hyphen.
RECURSIVE ReplaceWhitespaceRuns(_)
ReplaceWhitespaceRuns(s) ==
  IF s = << >> THEN << >>
  ELSE IF Head(s) \in Whitespace
    THEN IF Len(s) > 1 /\ s[2] \in Whitespace
           THEN ReplaceWhitespaceRuns(Tail(s))
           ELSE <<"-">> \o ReplaceWhitespaceRuns(Tail(s))
    ELSE <<Head(s)>> \o ReplaceWhitespaceRuns(Tail(s))

\* .replace(/[^a-z0-9-]/g, '-') : every other character becomes a hyphen,
\* one for one.
ReplaceNonSlugChars(s) ==
  [i \in 1..Len(s) |->
     IF s[i] \in LowerLetters \cup Digits \cup {"-"} THEN s[i] ELSE "-"]

\* .replace(/-+/g, '-') : every maximal run of hyphens becomes one hyphen.
RECURSIVE CollapseHyphens(_)
CollapseHyphens(s) ==
  IF s = << >> THEN << >>
  ELSE IF Head(s) = "-" /\ Len(s) > 1 /\ s[2] = "-"
    THEN CollapseHyphens(Tail(s))
    ELSE <<Head(s)>> \o CollapseHyphens(Tail(s))

\* .replace(/^-|-$/g, '') : one hyphen at the start and one at the end are
\* removed; a string that is a single hyphen becomes empty.
TrimHyphen(s) ==
  LET a == IF s # << >> /\ Head(s) = "-" THEN Tail(s) ELSE s
  IN  IF a # << >> /\ a[Len(a)] = "-" THEN SubSeq(a, 1, Len(a) - 1) ELSE a

\* create_project.ts 19-23
baseSlugOf(name) ==
  TrimHyphen(CollapseHyphens(ReplaceNonSlugChars(
    ReplaceWhitespaceRuns(toLowerCase(name)))))

\* .replace(/[^a-z0-9]+/g, '-') : every maximal run of characters that are
\* not lower-case letters or digits becomes one hyphen.
RECURSIVE ReplaceNonAlnumRuns(_)
ReplaceNonAlnumRuns(s) ==
  IF s = << >> THEN << >>
  ELSE IF Head(s) \notin LowerLetters \cup Digits
    THEN IF Len(s) > 1 /\ s[2] \notin LowerLetters \cup Digits
           THEN ReplaceNonAlnumRuns(Tail(s))
           ELSE <<"-">> \o ReplaceNonAlnumRuns(Tail(s))
    ELSE <<Head(s)>> \o ReplaceNonAlnumRuns(Tail(s))

\* update_project.ts 27-29
renameSlugOf(name) == TrimHyphen(ReplaceNonAlnumRuns(toLowerCase(name)))

\* The candidate that passes over one number.
candidateSlugMutant(baseSlug, counter) ==
  baseSlug \o <<"-">> \o NumberToString(counter + 1)

\* create_project.ts 39 : `${baseSlug}-${counter}`
candidateSlug(baseSlug, counter) ==
  baseSlug \o <<"-">> \o NumberToString(counter)

----------------------------------------------------------------------------
(* Path utilities *)

\* filePath.split('/').filter(part => part !== '')
RECURSIVE SplitPath(_, _)
SplitPath(s, cur) ==
  IF s = << >> THEN (IF cur = << >> THEN << >> ELSE <<cur>>)
  ELSE IF Head(s) = "/"
    THEN (IF cur = << >> THEN << >> ELSE <<cur>>) \o SplitPath(Tail(s), << >>)
    ELSE SplitPath(Tail(s), Append(cur, Head(s)))

\* parts.join('/') with a leading '/'
RECURSIVE JoinWithSlash(_)
JoinWithSlash(parts) ==
  IF parts = << >> THEN << >>
  ELSE <<"/">> \o Head(parts) \o JoinWithSlash(Tail(parts))

\* The parent path without the leading '/'.
getParentPathMutant(filePath) ==
  LET parts == SplitPath(filePath, << >>)
  IN  IF Len(parts) <= 1 THEN NULL
      ELSE Tail(JoinWithSlash(SubSeq(parts, 1, Len(parts) - 1)))

\* simulate_ai_generation.ts 441-447
getParentPath(filePath) ==
  LET parts == SplitPath(filePath, << >>)
  IN  IF Len(parts) <= 1 THEN NULL
      ELSE JoinWithSlash(SubSeq(parts, 1, Len(parts) - 1))

\* PostgreSQL `value LIKE pattern` with the default escape character: '%'
\* matches any run of characters, '_' any one character, a backslash makes
\* the character after it literal.  drizzle's like() passes the pattern as
\* it is given.
RECURSIVE LikeMatch(_, _)
LikeMatch(s, p) ==
  IF p = << >> THEN s = << >>
  ELSE IF Head(p) = "%"
    THEN \E k \in 0..Len(s) : LikeMatch(SubSeq(s, k + 1, Len(s)), Tail(p))
  ELSE IF Head(p) = "_"
    THEN s # << >> /\ LikeMatch(Tail(s), Tail(p))
  ELSE IF Head(p) = "\\" /\ Len(p) > 1
    THEN s # << >> /\ Head(s) = p[2] /\ LikeMatch(Tail(s), Tail(Tail(p)))
  ELSE s # << >> /\ Head(s) = Head(p) /\ LikeMatch(Tail(s), Tail(p))

----------------------------------------------------------------------------
(* Bounds and inputs *)

\* Largest value the serial of the projects table takes in a run.
MaxProjectId == 3

\* Concurrent callers of the tRPC router (index.ts 48-131).
Clients == {"c1", "c2"}

\* Rows of the users table; registration is outside this model.
UserIds == {1, 2}

\* user_id offered to createProject: an existing user and a missing one.
CreateUserInputs == {1, 9}

\* userId offered to deleteProject: the owner and another user.
DeleteUserInputs == {1, 2}

\* Project names offered to createProject and updateProject:
\* "a", "A 1" (its slug is the first candidate after "a") and "!".
NameInputs == { <<"a">>, <<"A", " ", "1">>, <<"!">> }

\* ai_prompt of the projects created in SpecProject: "app".
DefaultPrompt == <<"a", "p", "p">>

\* "api"
ApiPrompt == <<"a", "p", "i">>

----------------------------------------------------------------------------
(* State *)

VARIABLES
  projects,       \* rows of projectsTable (schema.ts 15-26)
  files,          \* rows of filesTable (schema.ts 29-39)
  chatMessages,   \* rows of chatMessagesTable (schema.ts 42-50)
  deployments,    \* rows of deploymentsTable (schema.ts 65-73)
  projectSeq,     \* last value of projects.id serial
  fileSeq,        \* last value of files.id serial
  chatSeq,        \* last value of chat_messages.id serial
  deploymentSeq,  \* last value of deployments.id serial
  req,            \* per client: the handler it runs, its position and locals
  watch,          \* history switch: whether returned calls are recorded
  last,           \* history: the call that returned most recently
  issued,         \* history: the slugs createProject has stored
  released,       \* history: some stored slug was given up (delete or rename)
  ui              \* the open workspace: its project, file list and selection

vars ==
  <<projects, files, chatMessages, deployments, projectSeq, fileSeq,
    chatSeq, deploymentSeq, req, watch, last, issued, released, ui>>

stores == <<projects, files, chatMessages, deployments>>
serials == <<projectSeq, fileSeq, chatSeq, deploymentSeq>>
history == <<issued, released>>

NoProject ==
  [id |-> 0, user_id |-> 0, name |-> << >>, ai_prompt |-> << >>,
   slug |-> << >>, is_deployed |-> FALSE, deployment_url |-> NULL]

NoFile ==
  [id |-> 0, project_id |-> 0, path |-> << >>, name |-> << >>,
   content |-> << >>, is_folder |-> FALSE, parent_path |-> NULL]

\* An optional input field is the empty set when it is undefined and the
\* singleton of its value when it is supplied.
NoUpdate ==
  [name |-> {}, ai_prompt |-> {}, is_deployed |-> {}, deployment_url |-> {}]

\* The optional fields of updateFileInputSchema.
NoFileUpdate == [name |-> {}, content |-> {}, path |-> {}]

\* A client that runs no handler.
Idle ==
  [op |-> "none", pc |-> "idle",
   user_id |-> 0, project_id |-> 0, file_id |-> 0,
   name |-> << >>, ai_prompt |-> << >>, update |-> NoUpdate,
   baseSlug |-> << >>, slug |-> << >>, counter |-> 0,
   input |-> NoFile, file |-> NoFile, project |-> NoProject, k |-> 0,
   removed |-> 0, file_update |-> NoFileUpdate, rows |-> << >>,
   flow |-> "none"]

NoCall ==
  [op |-> "none", result |-> "none", project_id |-> 0, user_id |-> 0,
   file_id |-> 0, file |-> NoFile, removed |-> 0, project |-> NoProject,
   rows |-> << >>]

\* No workspace is open.
NoWorkspace == [project_id |-> 0, files |-> {}, selectedFile |-> NoFile]

\* unnamed/part_001 65-124: what a handler of the workspace does with the
\* outcome of the call it awaited.  Lines 78-86: handleFileCreate appends
\* the new node and selects it when it is a file.  Lines 95-103:
\* handleFileUpdate replaces the node of that id by the returned one, in
\* the list and in the selection.  Lines 112-120: handleFileDelete drops
\* the node of that id from the list and from the selection.  An error of
\* the call is logged (lines 87-89, 104-106, 121-123).
WorkspaceAfter(u, r, result) ==
  IF r.flow # "workspace" THEN u
  ELSE IF r.op = "createFile" /\ result = "ok"
    THEN [u EXCEPT !.files = @ \cup {r.file},
                   !.selectedFile = IF r.file.is_folder THEN @ ELSE r.file]
  ELSE IF r.op = "updateFile" /\ result \in {"ok", "undefined"}
    THEN [u EXCEPT
            !.files = {IF f.id = r.file_id THEN r.file ELSE f : f \in @},
            !.selectedFile = IF @.id = r.file_id /\ @ # NoFile
                               THEN r.file ELSE @]
  ELSE IF r.op = "deleteFile" /\ result \in {"true", "false"}
    THEN [u EXCEPT
            !.files = {f \in @ : f.id # r.file_id},
            !.selectedFile = IF @.id = r.file_id THEN NoFile ELSE @]
  ELSE u

\* A client may call a handler when its previous call has returned.
Free(c) == req[c].pc = "idle"

\* The promise of the call of client c, whose locals are r, settles with
\* `result`: the client is free again and the call is the last returned one.
Return(c, r, result) ==
  /\ req' = [req EXCEPT ![c] = Idle]
  /\ last' = IF watch
               THEN [op |-> r.op, result |-> result,
                     project_id |-> r.project_id, user_id |-> r.user_id,
                     file_id |-> r.file_id, file |-> r.file,
                     removed |-> r.removed, project |-> r.project,
                     rows |-> r.rows]
               ELSE last
  /\ ui' = WorkspaceAfter(ui, r, result)
  /\ UNCHANGED watch

\* The call of client c goes on with locals r.
Continue(c, r) ==
  /\ req' = [req EXCEPT ![c] = r]
  /\ UNCHANGED <<watch, last, ui>>

----------------------------------------------------------------------------
(* Store constraints (schema.ts) *)

ProjectExistsMutant(ps, id) == TRUE
ProjectExists(ps, id) == \E p \in ps : p.id = id

\* slug: text('slug').notNull().unique() on INSERT
InsertViolatesUniqueMutant(ps, slug) == FALSE
InsertViolatesUnique(ps, slug) == \E p \in ps : p.slug = slug

\* slug: text('slug').notNull().unique() on UPDATE of row id
UpdateViolatesUniqueMutant(ps, id, slug) == FALSE
UpdateViolatesUnique(ps, id, slug) ==
  \E p \in ps : p.id # id /\ p.slug = slug

\* references(() => projectsTable.id, { onDelete: 'cascade' }) : deleting the
\* project rows `gone` deletes the rows that reference them.
CascadeMutant(rows, gone) == rows
Cascade(rows, gone) ==
  {r \in rows : ~ \E p \in gone : p.id = r.project_id}

----------------------------------------------------------------------------
(* createProject : create_project.ts 6-62 *)

CreateProjectsInFlight ==
  Cardinality({c \in Clients : req[c].op = "createProject"})

\* Lines 9-26: the user look-up, then the base slug.
CreateProjectCall(c) ==
  /\ Free(c)
  /\ projectSeq + CreateProjectsInFlight < MaxProjectId
  /\ \E uid \in CreateUserInputs, name \in NameInputs :
       LET r == [Idle EXCEPT !.op = "createProject", !.user_id = uid,
                             !.name = name, !.ai_prompt = DefaultPrompt]
       IN  IF uid \notin UserIds
             THEN Return(c, r, "error_user_not_found")
             ELSE Continue(c, [r EXCEPT !.pc = "cp_lookup",
                                        !.baseSlug = baseSlugOf(name),
                                        !.slug = baseSlugOf(name),
                                        !.counter = 1])
  /\ UNCHANGED <<stores, serials, history>>

\* An iteration that keeps its counter when the candidate is held.
CreateProjectLookupMutant(c) ==
  /\ req[c].op = "createProject" /\ req[c].pc = "cp_lookup"
  /\ LET r == req[c]
         existingProject == {p \in projects : p.slug = r.slug}
     IN  IF existingProject = {}
           THEN Continue(c, [r EXCEPT !.pc = "cp_insert"])
           ELSE Continue(c, [r EXCEPT
                  !.slug = candidateSlug(r.baseSlug, r.counter)])
  /\ UNCHANGED <<stores, serials, history>>

\* Lines 29-41: one iteration of the uniqueness loop.
CreateProjectLookup(c) ==
  /\ req[c].op = "createProject" /\ req[c].pc = "cp_lookup"
  /\ LET r == req[c]
         existingProject == {p \in projects : p.slug = r.slug}
     IN  IF existingProject = {}
           THEN Continue(c, [r EXCEPT !.pc = "cp_insert"])
           ELSE Continue(c, [r EXCEPT
                  !.slug = candidateSlug(r.baseSlug, r.counter),
                  !.counter = r.counter + 1])
  /\ UNCHANGED <<stores, serials, history>>

\* Lines 44-61: the insert; a constraint violation is logged and rethrown.
CreateProjectInsert(c) ==
  /\ req[c].op = "createProject" /\ req[c].pc = "cp_insert"
  /\ LET r == req[c]
         row == [id |-> projectSeq + 1, user_id |-> r.user_id,
                 name |-> r.name, ai_prompt |-> r.ai_prompt,
                 slug |-> r.slug, is_deployed |-> FALSE,
                 deployment_url |-> NULL]
     IN  /\ projectSeq' = projectSeq + 1
         /\ IF InsertViolatesUnique(projects, r.slug)
              THEN /\ Return(c, r, "error_unique_violation")
                   /\ UNCHANGED <<projects, issued>>
              ELSE /\ projects' = projects \cup {row}
                   /\ issued' = issued \cup
                        {[name |-> r.name, slug |-> r.slug,
                          suffix |-> r.counter - 1]}
                   /\ Return(c, r, "ok")
  /\ UNCHANGED <<files, chatMessages, deployments, fileSeq, chatSeq,
                 deploymentSeq, released>>

----------------------------------------------------------------------------
(* updateProject : update_project.ts 6-58 *)

\* Partial inputs that rename the project.
RenameInputs == {[NoUpdate EXCEPT !.name = {n}] : n \in NameInputs}

ProjectIdInputs == 1..MaxProjectId

\* Lines 18-38: updateData, built from the fields that are supplied.
ApplyUpdate(p, u) ==
  [p EXCEPT
     !.name = IF u.name = {} THEN @ ELSE CHOOSE n \in u.name : TRUE,
     !.slug = IF u.name = {} THEN @
              ELSE renameSlugOf(CHOOSE n \in u.name : TRUE),
     !.ai_prompt = IF u.ai_prompt = {} THEN @
                   ELSE CHOOSE x \in u.ai_prompt : TRUE,
     !.is_deployed = IF u.is_deployed = {} THEN @
                     ELSE CHOOSE x \in u.is_deployed : TRUE,
     !.deployment_url = IF u.deployment_url = {} THEN @
                        ELSE CHOOSE x \in u.deployment_url : TRUE]

\* Lines 9-16: the existence check.
UpdateProjectCall(c, inputs) ==
  /\ Free(c)
  /\ \E id \in ProjectIdInputs, u \in inputs :
       LET r == [Idle EXCEPT !.op = "updateProject", !.project_id = id,
                             !.update = u]
       IN  IF ProjectExists(projects, id)
             THEN Continue(c, [r EXCEPT !.pc = "up_update"])
             ELSE Return(c, r, "error_not_found")
  /\ UNCHANGED <<stores, serials, history>>

\* Lines 40-54: UPDATE ... WHERE id = input.id RETURNING; result[0] is
\* undefined when the row has gone in the meantime.
UpdateProjectUpdate(c) ==
  /\ req[c].op = "updateProject" /\ req[c].pc = "up_update"
  /\ LET r == req[c]
         rows == {p \in projects : p.id = r.project_id}
     IN  IF rows = {}
           THEN /\ Return(c, r, "undefined")
                /\ UNCHANGED <<projects, released>>
           ELSE LET old == CHOOSE p \in rows : TRUE
                    new == ApplyUpdate(old, r.update)
                IN  IF UpdateViolatesUnique(projects, old.id, new.slug)
                      THEN /\ Return(c, r, "error_unique_violation")
                           /\ UNCHANGED <<projects, released>>
                      ELSE /\ projects' = (projects \ {old}) \cup {new}
                           /\ released' = (released \/ new.slug # old.slug)
                           /\ Return(c, r, "ok")
  /\ UNCHANGED <<files, chatMessages, deployments, serials, issued>>

----------------------------------------------------------------------------
(* deleteProject : unnamed/part_003 5-34 *)

\* and(eq(projectsTable.id, projectId), eq(projectsTable.user_id, userId))
OwnedRowsMutant(ps, projectId, userId) == {p \in ps : p.id = projectId}
OwnedRows(ps, projectId, userId) ==
  {p \in ps : p.id = projectId /\ p.user_id = userId}

\* Lines 8-18: the ownership check.
DeleteProjectCall(c) ==
  /\ Free(c)
  /\ \E id \in ProjectIdInputs, uid \in DeleteUserInputs :
       LET r == [Idle EXCEPT !.op = "deleteProject", !.project_id = id,
                             !.user_id = uid]
       IN  IF OwnedRows(projects, id, uid) = {}
             THEN Return(c, r, "false")
             ELSE Continue(c, [r EXCEPT !.pc = "dp_delete"])
  /\ UNCHANGED <<stores, serials, history>>

\* Lines 21-29: the delete, with the store's cascade to dependent rows.
DeleteProjectDelete(c) ==
  /\ req[c].op = "deleteProject" /\ req[c].pc = "dp_delete"
  /\ LET r == req[c]
         gone == OwnedRows(projects, r.project_id, r.user_id)
     IN  /\ projects' = projects \ gone
         /\ files' = Cascade(files, gone)
         /\ chatMessages' = Cascade(chatMessages, gone)
         /\ deployments' = Cascade(deployments, gone)
         /\ released' = (released \/ gone # {})
         /\ Return(c, [r EXCEPT !.removed =
                                  Cardinality(gone)
                                  + Cardinality(files \ files')
                                  + Cardinality(chatMessages \ chatMessages')
                                  + Cardinality(deployments \ deployments')],
                   IF Cardinality(gone) > 0 THEN "true" ELSE "false")
  /\ UNCHANGED <<serials, issued>>

----------------------------------------------------------------------------
(* Project store: the three project handlers under concurrent callers *)

InitEmpty ==
  /\ projects = {} /\ files = {} /\ chatMessages = {} /\ deployments = {}
  /\ projectSeq = 0 /\ fileSeq = 0 /\ chatSeq = 0 /\ deploymentSeq = 0
  /\ req = [c \in Clients |-> Idle]
  /\ watch = FALSE /\ last = NoCall
  /\ issued = {} /\ released = FALSE
  /\ ui = NoWorkspace

NextProject ==
  \E c \in Clients :
    \/ CreateProjectCall(c)
    \/ CreateProjectLookup(c)
    \/ CreateProjectInsert(c)
    \/ UpdateProjectCall(c, RenameInputs)
    \/ UpdateProjectUpdate(c)
    \/ DeleteProjectCall(c)
    \/ DeleteProjectDelete(c)

SpecProject == InitEmpty /\ [][NextProject]_vars

----------------------------------------------------------------------------
(* The project procedures, one caller *)

NextProjectSeq ==
  \/ CreateProjectCall("c1")
  \/ CreateProjectLookup("c1")
  \/ CreateProjectInsert("c1")
  \/ UpdateProjectCall("c1", RenameInputs)
  \/ UpdateProjectUpdate("c1")
  \/ DeleteProjectCall("c1")
  \/ DeleteProjectDelete("c1")

\* Each look-up of the loop is awaited: once the store has answered, the
\* handler goes on with the next statement.
SpecProjectSeq ==
  /\ InitEmpty
  /\ [][NextProjectSeq]_vars
  /\ WF_vars(CreateProjectLookup("c1"))

----------------------------------------------------------------------------
(* File tree store *)

\* references(() => projectsTable.id) on INSERT into files, chat_messages
\* and deployments.
ForeignKeyViolatedMutant(ps, projectId) == FALSE
ForeignKeyViolated(ps, projectId) == ~ProjectExists(ps, projectId)

\* createFile : create_file.ts 6-36.  Lines 9-16: the project check.
CreateFileCall(c, inputs, maxId) ==
  /\ Free(c)
  /\ fileSeq < maxId
  /\ \E input \in inputs :
       LET r == [Idle EXCEPT !.op = "createFile", !.input = input,
                             !.project_id = input.project_id]
       IN  IF ProjectExists(projects, input.project_id)
             THEN Continue(c, [r EXCEPT !.pc = "cf_insert"])
             ELSE Return(c, r, "error_not_found")
  /\ UNCHANGED <<stores, serials, history>>

\* Lines 19-31: the insert.
CreateFileInsert(c, maxId) ==
  /\ req[c].op = "createFile" /\ req[c].pc = "cf_insert"
  /\ fileSeq < maxId
  /\ LET r == req[c]
         row == [r.input EXCEPT !.id = fileSeq + 1]
     IN  /\ fileSeq' = fileSeq + 1
         /\ IF ForeignKeyViolated(projects, r.input.project_id)
              THEN /\ Return(c, r, "error_fk_violation")
                   /\ UNCHANGED files
              ELSE /\ files' = files \cup {row}
                   /\ Return(c, [r EXCEPT !.file = row], "ok")
  /\ UNCHANGED <<projects, chatMessages, deployments, projectSeq, chatSeq,
                 deploymentSeq, history>>

\* deleteFile : delete_file.ts 5-49.

\* and(eq(filesTable.id, fileId), eq(filesTable.project_id, projectId))
TargetRowsMutant(fs, fileId, projectId) == {f \in fs : f.id = fileId}
TargetRows(fs, fileId, projectId) ==
  {f \in fs : f.id = fileId /\ f.project_id = projectId}

\* Line 26: the folder path with a trailing separator.
folderPathOf(file) ==
  IF endsWith(file.path, <<"/">>) THEN file.path ELSE file.path \o <<"/">>

\* Lines 28-33: and(eq(filesTable.project_id, projectId),
\*                  like(filesTable.path, `${folderPath}%`))
ChildRowsMutant(fs, projectId, folderPath) ==
  {f \in fs : LikeMatch(f.path, folderPath \o <<"%">>)}
ChildRows(fs, projectId, folderPath) ==
  {f \in fs : /\ f.project_id = projectId
              /\ LikeMatch(f.path, folderPath \o <<"%">>)}

FileIdInputs(maxId) == 1..maxId
FileProjectInputs == {1, 2}

\* Lines 7-20: the look-up of the target in the project.
DeleteFileCall(c, maxId) ==
  /\ Free(c)
  /\ \E fileId \in FileIdInputs(maxId), projectId \in FileProjectInputs :
       LET r == [Idle EXCEPT !.op = "deleteFile", !.file_id = fileId,
                             !.project_id = projectId]
           found == TargetRows(files, fileId, projectId)
       IN  IF found = {}
             THEN Return(c, r, "false")
             ELSE LET file == CHOOSE f \in found : TRUE
                  IN  Continue(c, [r EXCEPT
                        !.file = file,
                        !.pc = IF file.is_folder THEN "df_children"
                               ELSE "df_target"])
  /\ UNCHANGED <<stores, serials, history>>

\* Lines 23-34: the delete of the rows under the folder.
DeleteFileChildren(c) ==
  /\ req[c].op = "deleteFile" /\ req[c].pc = "df_children"
  /\ LET r == req[c]
         gone == ChildRows(files, r.project_id, folderPathOf(r.file))
     IN  /\ files' = files \ gone
         /\ Continue(c, [r EXCEPT !.pc = "df_target",
                                  !.removed = Cardinality(gone)])
  /\ UNCHANGED <<projects, chatMessages, deployments, serials, history>>

\* Lines 37-43: the delete of the target, and the row count it reports.
DeleteFileTarget(c) ==
  /\ req[c].op = "deleteFile" /\ req[c].pc = "df_target"
  /\ LET r == req[c]
         gone == TargetRows(files, r.file_id, r.project_id)
     IN  /\ files' = files \ gone
         /\ Return(c, [r EXCEPT !.removed = @ + Cardinality(gone)],
                   IF Cardinality(gone) > 0 THEN "true" ELSE "false")
  /\ UNCHANGED <<projects, chatMessages, deployments, serials, history>>

\* Lines 44-47: a delete statement rejects (the store is unreachable, the
\* connection drops); the error is logged and rethrown.  The two deletes
\* are separate statements outside any transaction, so what the first one
\* removed stays removed.
DeleteFileStoreFailure(c) ==
  /\ req[c].op = "deleteFile" /\ req[c].pc \in {"df_children", "df_target"}
  /\ Return(c, req[c], "error_store")
  /\ UNCHANGED <<stores, serials, history>>

----------------------------------------------------------------------------
(* updateFile : handlers/update_file.ts, called by index.ts 93-95.  The     *)
(* handler follows the repository's update pattern (update_project.ts):    *)
(* a look-up by id that throws `File with id N not found`, then one update *)
(* of the supplied fields and updated_at, returning the updated row.       *)

\* The row with only the supplied fields replaced.
ApplyFileUpdateMutant(f, u) ==
  [f EXCEPT
     !.name = IF u.name = {} THEN @ ELSE CHOOSE n \in u.name : TRUE,
     !.content = IF u.content = {} THEN @ ELSE CHOOSE x \in u.content : TRUE,
     !.path = IF u.path = {} THEN @ ELSE CHOOSE x \in u.path : TRUE,
     !.parent_path = IF u.path = {} THEN @
                     ELSE getParentPath(CHOOSE x \in u.path : TRUE)]
ApplyFileUpdate(f, u) ==
  [f EXCEPT
     !.name = IF u.name = {} THEN @ ELSE CHOOSE n \in u.name : TRUE,
     !.content = IF u.content = {} THEN @ ELSE CHOOSE x \in u.content : TRUE,
     !.path = IF u.path = {} THEN @ ELSE CHOOSE x \in u.path : TRUE]

\* The look-up by id.
UpdateFileCall(c, inputs, maxId) ==
  /\ Free(c)
  /\ \E fileId \in FileIdInputs(maxId), u \in inputs :
       LET r == [Idle EXCEPT !.op = "updateFile", !.file_id = fileId,
                             !.file_update = u]
           found == {f \in files : f.id = fileId}
       IN  IF found = {}
             THEN Return(c, r, "error_not_found")
             ELSE Continue(c, [r EXCEPT !.pc = "uf_update"])
  /\ UNCHANGED <<stores, serials, history>>

\* The update of the row, which another call may have deleted since the
\* look-up.
UpdateFileUpdate(c) ==
  /\ req[c].op = "updateFile" /\ req[c].pc = "uf_update"
  /\ LET r == req[c]
         found == {f \in files : f.id = r.file_id}
     IN  IF found = {}
           THEN /\ UNCHANGED files
                /\ Return(c, r, "undefined")
           ELSE LET old == CHOOSE f \in found : TRUE
                    new == ApplyFileUpdate(old, r.file_update)
                IN  /\ files' = (files \ {old}) \cup {new}
                    /\ Return(c, [r EXCEPT !.file = new], "ok")
  /\ UNCHANGED <<projects, chatMessages, deployments, serials, history>>

----------------------------------------------------------------------------
(* File tree store: specifications *)

\* The projects the file-store specifications start from: two projects of
\* user 1, created as "a" and "A 1".
Project1 ==
  [id |-> 1, user_id |-> 1, name |-> <<"a">>, ai_prompt |-> DefaultPrompt,
   slug |-> <<"a">>, is_deployed |-> FALSE, deployment_url |-> NULL]

Project2 ==
  [id |-> 2, user_id |-> 1, name |-> <<"A", " ", "1">>,
   ai_prompt |-> ApiPrompt, slug |-> <<"a", "-", "1">>,
   is_deployed |-> FALSE, deployment_url |-> NULL]

InitTwoProjects ==
  /\ projects = {Project1, Project2}
  /\ files = {} /\ chatMessages = {} /\ deployments = {}
  /\ projectSeq = 2 /\ fileSeq = 0 /\ chatSeq = 0 /\ deploymentSeq = 0
  /\ req = [c \in Clients |-> Idle]
  /\ watch = TRUE /\ last = NoCall
  /\ issued = {} /\ released = FALSE
  /\ ui = NoWorkspace

\* Largest value the serial of the files table takes in the file-store
\* specifications.
MaxFileId == 3

\* A createFile input for a path, with the name and parent the workspace
\* sends for it.
FileInput(projectId, path, isFolder) ==
  LET parts == SplitPath(path, << >>)
  IN  [id |-> 0, project_id |-> projectId, path |-> path,
       name |-> IF parts = << >> THEN path ELSE parts[Len(parts)],
       content |-> << >>, is_folder |-> isFolder,
       parent_path |-> getParentPath(path)]

\* createFile inputs of the sequential specification: a folder /s with a
\* sub-folder /s/d and a file /s/d/g, a sibling /s2, folders whose names hold
\* a LIKE wildcard ("/_") or the LIKE escape ("/a\b", with a file in it), the
\* same paths in project 2, and a project that does not exist.
TreeInputs ==
  { FileInput(1, <<"/", "s">>, TRUE),
    FileInput(1, <<"/", "s", "/", "d">>, TRUE),
    FileInput(1, <<"/", "s", "/", "d", "/", "g">>, FALSE),
    FileInput(1, <<"/", "s", "2">>, FALSE),
    FileInput(1, <<"/", "_">>, TRUE),
    FileInput(1, <<"/", "a", "\\", "b">>, TRUE),
    FileInput(1, <<"/", "a", "\\", "b", "/", "c">>, FALSE),
    FileInput(2, <<"/", "s">>, TRUE),
    FileInput(2, <<"/", "s", "/", "d">>, TRUE),
    FileInput(9, <<"/", "s">>, TRUE) }

\* One caller at a time: every call returns before the next one starts.
NextTreeSeq ==
  \E c \in {"c1"} :
    \/ CreateFileCall(c, TreeInputs, MaxFileId)
    \/ CreateFileInsert(c, MaxFileId)
    \/ DeleteFileCall(c, MaxFileId)
    \/ DeleteFileChildren(c)
    \/ DeleteFileTarget(c)

SpecTreeSeq == InitTwoProjects /\ [][NextTreeSeq]_vars

\* createFile inputs of the concurrent specification.
RaceInputs ==
  { FileInput(1, <<"/", "s">>, TRUE),
    FileInput(1, <<"/", "s", "/", "d">>, FALSE),
    FileInput(2, <<"/", "s">>, TRUE) }

\* Concurrent callers, and delete statements that may fail.
NextTree ==
  \E c \in Clients :
    \/ CreateFileCall(c, RaceInputs, MaxFileId)
    \/ CreateFileInsert(c, MaxFileId)
    \/ DeleteFileCall(c, MaxFileId)
    \/ DeleteFileChildren(c)
    \/ DeleteFileTarget(c)
    \/ DeleteFileStoreFailure(c)

SpecTree == InitTwoProjects /\ [][NextTree]_vars

----------------------------------------------------------------------------
(* simulateAIGeneration : simulate_ai_generation.ts *)

\* A run of literal template text, kept as one element of the string.
Lit(tag) == <<tag>>

\* .replace(/[^a-z0-9\s-]/g, '') : the other characters are removed.
RemoveSpecialChars(s) ==
  SelectSeq(s, LAMBDA ch :
    ch \in LowerLetters \cup Digits \cup Whitespace \cup {"-"})

\* Lines 449-455.
sanitizeProjectName(projectName) ==
  TrimHyphen(CollapseHyphens(ReplaceWhitespaceRuns(
    RemoveSpecialChars(toLowerCase(projectName)))))

\* Lines 76-183.
generateReactProject(projectName) ==
  <<
     [path |-> <<"/", "s", "r", "c">>,
      name |-> <<"s", "r", "c">>,
      content |-> << >>,
      is_folder |-> TRUE],
     [path |-> <<"/", "p", "u", "b", "l", "i", "c">>,
      name |-> <<"p", "u", "b", "l", "i", "c">>,
      content |-> << >>,
      is_folder |-> TRUE],
     [path |-> <<"/", "p", "a", "c", "k", "a", "g", "e", ".", "j", "s", "o", "n">>,
      name |-> <<"p", "a", "c", "k", "a", "g", "e", ".", "j", "s", "o", "n">>,
      content |-> Lit("react/package.json:1") \o sanitizeProjectName(projectName) \o Lit("react/package.json:2"),
      is_folder |-> FALSE],
     [path |-> <<"/", "s", "r", "c", "/", "A", "p", "p", ".", "t", "s", "x">>,
      name |-> <<"A", "p", "p", ".", "t", "s", "x">>,
      content |-> Lit("react/App.tsx:1") \o projectName \o Lit("react/App.tsx:2"),
      is_folder |-> FALSE],
     [path |-> <<"/", "s", "r", "c", "/", "i", "n", "d", "e", "x", ".", "t", "s", "x">>,
      name |-> <<"i", "n", "d", "e", "x", ".", "t", "s", "x">>,
      content |-> Lit("react/index.tsx"),
      is_folder |-> FALSE],
     [path |-> <<"/", "s", "r", "c", "/", "A", "p", "p", ".", "c", "s", "s">>,
      name |-> <<"A", "p", "p", ".", "c", "s", "s">>,
      content |-> Lit("react/App.css"),
      is_folder |-> FALSE],
     [path |-> <<"/", "p", "u", "b", "l", "i", "c", "/", "i", "n", "d", "e", "x", ".", "h", "t", "m", "l">>,
      name |-> <<"i", "n", "d", "e", "x", ".", "h", "t", "m", "l">>,
      content |-> Lit("react/index.html:1") \o projectName \o Lit("react/index.html:2"),
      is_folder |-> FALSE]
  >>

\* Lines 185-264.
generateAPIProject(projectName) ==
  <<
     [path |-> <<"/", "s", "r", "c">>,
      name |-> <<"s", "r", "c">>,
      content |-> << >>,
      is_folder |-> TRUE],
     [path |-> <<"/", "p", "a", "c", "k", "a", "g", "e", ".", "j", "s", "o", "n">>,
      name |-> <<"p", "a", "c", "k", "a", "g", "e", ".", "j", "s", "o", "n">>,
      content |-> Lit("api/package.json:1") \o sanitizeProjectName(projectName) \o Lit("api/package.json:2"),
      is_folder |-> FALSE],
     [path |-> <<"/", "s", "r", "c", "/", "s", "e", "r", "v", "e", "r", ".", "j", "s">>,
      name |-> <<"s", "e", "r", "v", "e", "r", ".", "j", "s">>,
      content |-> Lit("api/server.js:1") \o projectName \o Lit("api/server.js:2") \o projectName \o Lit("api/server.js:3"),
      is_folder |-> FALSE],
     [path |-> <<"/", "R", "E", "A", "D", "M", "E", ".", "m", "d">>,
      name |-> <<"R", "E", "A", "D", "M", "E", ".", "m", "d">>,
      content |-> <<"#", " ">> \o projectName \o Lit("api/README.md"),
      is_folder |-> FALSE]
  >>

\* Lines 266-392.
generateFullStackProject(projectName) ==
  <<
     [path |-> <<"/", "f", "r", "o", "n", "t", "e", "n", "d">>,
      name |-> <<"f", "r", "o", "n", "t", "e", "n", "d">>,
      content |-> << >>,
      is_folder |-> TRUE],
     [path |-> <<"/", "b", "a", "c", "k", "e", "n", "d">>,
      name |-> <<"b", "a", "c", "k", "e", "n", "d">>,
      content |-> << >>,
      is_folder |-> TRUE],
     [path |-> <<"/", "p", "a", "c", "k", "a", "g", "e", ".", "j", "s", "o", "n">>,
      name |-> <<"p", "a", "c", "k", "a", "g", "e", ".", "j", "s", "o", "n">>,
      content |-> Lit("full/package.json:1") \o sanitizeProjectName(projectName) \o Lit("full/package.json:2"),
      is_folder |-> FALSE],
     [path |-> <<"/", "f", "r", "o", "n", "t", "e", "n", "d", "/", "p", "a", "c", "k", "a", "g", "e", ".", "j", "s", "o", "n">>,
      name |-> <<"p", "a", "c", "k", "a", "g", "e", ".", "j", "s", "o", "n">>,
      content |-> Lit("full/frontend/package.json:1") \o sanitizeProjectName(projectName) \o <<"-", "f", "r", "o", "n", "t", "e", "n", "d">> \o Lit("full/frontend/package.json:2"),
      is_folder |-> FALSE],
     [path |-> <<"/", "b", "a", "c", "k", "e", "n", "d", "/", "p", "a", "c", "k", "a", "g", "e", ".", "j", "s", "o", "n">>,
      name |-> <<"p", "a", "c", "k", "a", "g", "e", ".", "j", "s", "o", "n">>,
      content |-> Lit("full/backend/package.json:1") \o sanitizeProjectName(projectName) \o <<"-", "b", "a", "c", "k", "e", "n", "d">> \o Lit("full/backend/package.json:2"),
      is_folder |-> FALSE],
     [path |-> <<"/", "f", "r", "o", "n", "t", "e", "n", "d", "/", "s", "r", "c">>,
      name |-> <<"s", "r", "c">>,
      content |-> << >>,
      is_folder |-> TRUE],
     [path |-> <<"/", "f", "r", "o", "n", "t", "e", "n", "d", "/", "s", "r", "c", "/", "A", "p", "p", ".", "j", "s">>,
      name |-> <<"A", "p", "p", ".", "j", "s">>,
      content |-> Lit("full/App.js:1") \o projectName \o Lit("full/App.js:2"),
      is_folder |-> FALSE],
     [path |-> <<"/", "b", "a", "c", "k", "e", "n", "d", "/", "s", "e", "r", "v", "e", "r", ".", "j", "s">>,
      name |-> <<"s", "e", "r", "v", "e", "r", ".", "j", "s">>,
      content |-> Lit("full/server.js:1") \o projectName \o Lit("full/server.js:2"),
      is_folder |-> FALSE]
  >>

\* The basic template with src/index.js listed before the folder src.
generateBasicProjectMutant(projectName) ==
  <<
     [path |-> <<"/", "s", "r", "c", "/", "i", "n", "d", "e", "x", ".", "j", "s">>,
      name |-> <<"i", "n", "d", "e", "x", ".", "j", "s">>,
      content |-> Lit("basic/index.js"),
      is_folder |-> FALSE],
     [path |-> <<"/", "s", "r", "c">>,
      name |-> <<"s", "r", "c">>,
      content |-> << >>,
      is_folder |-> TRUE]
  >>

\* Lines 394-439.
generateBasicProject(projectName) ==
  <<
     [path |-> <<"/", "R", "E", "A", "D", "M", "E", ".", "m", "d">>,
      name |-> <<"R", "E", "A", "D", "M", "E", ".", "m", "d">>,
      content |-> <<"#", " ">> \o projectName \o Lit("basic/README.md"),
      is_folder |-> FALSE],
     [path |-> <<"/", "s", "r", "c">>,
      name |-> <<"s", "r", "c">>,
      content |-> << >>,
      is_folder |-> TRUE],
     [path |-> <<"/", "s", "r", "c", "/", "i", "n", "d", "e", "x", ".", "j", "s">>,
      name |-> <<"i", "n", "d", "e", "x", ".", "j", "s">>,
      content |-> <<"/", "/", " ">> \o projectName \o Lit("basic/index.js:1") \o projectName \o Lit("basic/index.js:2"),
      is_folder |-> FALSE],
     [path |-> <<"/", "p", "a", "c", "k", "a", "g", "e", ".", "j", "s", "o", "n">>,
      name |-> <<"p", "a", "c", "k", "a", "g", "e", ".", "j", "s", "o", "n">>,
      content |-> Lit("basic/package.json:1") \o sanitizeProjectName(projectName) \o Lit("basic/package.json:2"),
      is_folder |-> FALSE]
  >>

\* The classifier with the frontend keywords tried before the API keywords.
generateFilesFromPromptMutant(aiPrompt, projectName) ==
  LET promptLower == toLowerCase(aiPrompt)
  IN  IF \/ includes(promptLower, <<"f", "u", "l", "l", " ", "s", "t", "a", "c", "k">>)
         \/ includes(promptLower, <<"f", "u", "l", "l", "s", "t", "a", "c", "k">>)
        THEN generateFullStackProject(projectName)
      ELSE IF \/ includes(promptLower, <<"r", "e", "a", "c", "t">>)
              \/ includes(promptLower, <<"f", "r", "o", "n", "t", "e", "n", "d">>)
              \/ includes(promptLower, <<"u", "i">>)
        THEN generateReactProject(projectName)
      ELSE IF \/ includes(promptLower, <<"a", "p", "i">>)
              \/ includes(promptLower, <<"b", "a", "c", "k", "e", "n", "d">>)
              \/ includes(promptLower, <<"s", "e", "r", "v", "e", "r">>)
              \/ includes(promptLower, <<"e", "x", "p", "r", "e", "s", "s">>)
              \/ includes(promptLower, <<"n", "o", "d", "e", ".", "j", "s">>)
        THEN generateAPIProject(projectName)
      ELSE generateBasicProject(projectName)

\* Lines 61-74: the archetype is the first rule the lower-cased prompt
\* matches.
generateFilesFromPrompt(aiPrompt, projectName) ==
  LET promptLower == toLowerCase(aiPrompt)
  IN  IF \/ includes(promptLower, <<"f", "u", "l", "l", " ", "s", "t", "a", "c", "k">>)
         \/ includes(promptLower, <<"f", "u", "l", "l", "s", "t", "a", "c", "k">>)
        THEN generateFullStackProject(projectName)
      ELSE IF \/ includes(promptLower, <<"a", "p", "i">>)
              \/ includes(promptLower, <<"b", "a", "c", "k", "e", "n", "d">>)
              \/ includes(promptLower, <<"s", "e", "r", "v", "e", "r">>)
              \/ includes(promptLower, <<"e", "x", "p", "r", "e", "s", "s">>)
              \/ includes(promptLower, <<"n", "o", "d", "e", ".", "j", "s">>)
        THEN generateAPIProject(projectName)
      ELSE IF \/ includes(promptLower, <<"r", "e", "a", "c", "t">>)
              \/ includes(promptLower, <<"f", "r", "o", "n", "t", "e", "n", "d">>)
              \/ includes(promptLower, <<"u", "i">>)
        THEN generateReactProject(projectName)
      ELSE generateBasicProject(projectName)

\* Lines 12-15: select from projects where id = projectId.
ProjectRowsMutant(ps, projectId) == ps
ProjectRows(ps, projectId) == {p \in ps : p.id = projectId}

\* Lines 11-24: the project is loaded and its files are synthesized.
GenerateCall(c, maxId) ==
  /\ Free(c)
  /\ fileSeq < maxId
  /\ \E projectId \in ProjectIdInputs :
       LET r == [Idle EXCEPT !.op = "simulateAIGeneration",
                             !.project_id = projectId]
           found == ProjectRows(projects, projectId)
       IN  IF found = {}
             THEN Return(c, r, "error_not_found")
             ELSE Continue(c, [r EXCEPT
                    !.project = CHOOSE p \in found : TRUE,
                    !.pc = "gen_insert", !.k = 1])
  /\ UNCHANGED <<stores, serials, history>>

\* An iteration that stores its node in every project.
GenerateInsertMutant(c, maxId) ==
  /\ req[c].op = "simulateAIGeneration" /\ req[c].pc = "gen_insert"
  /\ fileSeq < maxId
  /\ LET r == req[c]
         generatedFiles ==
           generateFilesFromPrompt(r.project.ai_prompt, r.project.name)
         file == generatedFiles[r.k]
         row == [id |-> fileSeq + 1, project_id |-> r.project_id,
                 path |-> file.path, name |-> file.name,
                 content |-> file.content, is_folder |-> file.is_folder,
                 parent_path |-> getParentPath(file.path)]
     IN  /\ fileSeq' = fileSeq + 1
         /\ files' = files \cup {[row EXCEPT !.project_id = p.id] :
                                   p \in projects}
         /\ IF r.k = Len(generatedFiles)
              THEN Return(c, [r EXCEPT !.rows = generatedFiles], "ok")
              ELSE Continue(c, [r EXCEPT !.k = r.k + 1])
  /\ UNCHANGED <<projects, chatMessages, deployments, projectSeq, chatSeq,
                 deploymentSeq, history>>

\* Lines 27-38: one iteration of the insert loop; lines 40-58: the return,
\* or the rethrow of the insert's error.
GenerateInsert(c, maxId) ==
  /\ req[c].op = "simulateAIGeneration" /\ req[c].pc = "gen_insert"
  /\ fileSeq < maxId
  /\ LET r == req[c]
         generatedFiles ==
           generateFilesFromPrompt(r.project.ai_prompt, r.project.name)
         file == generatedFiles[r.k]
         row == [id |-> fileSeq + 1, project_id |-> r.project_id,
                 path |-> file.path, name |-> file.name,
                 content |-> file.content, is_folder |-> file.is_folder,
                 parent_path |-> getParentPath(file.path)]
     IN  /\ fileSeq' = fileSeq + 1
         /\ IF ForeignKeyViolated(projects, r.project_id)
              THEN /\ Return(c, r, "error_fk_violation")
                   /\ UNCHANGED files
              ELSE /\ files' = files \cup {row}
                   /\ IF r.k = Len(generatedFiles)
                        THEN Return(c, [r EXCEPT !.rows = generatedFiles],
                                    "ok")
                        ELSE Continue(c, [r EXCEPT !.k = r.k + 1])
  /\ UNCHANGED <<projects, chatMessages, deployments, projectSeq, chatSeq,
                 deploymentSeq, history>>

\* A failing insert that also removes the nodes the call has inserted.
GenerateInsertFailureMutant(c) ==
  /\ req[c].op = "simulateAIGeneration" /\ req[c].pc = "gen_insert"
  /\ Return(c, req[c], "error_store")
  /\ files' = {f \in files : f.id <= fileSeq - (req[c].k - 1)}
  /\ UNCHANGED <<projects, chatMessages, deployments, serials, history>>

\* Lines 27-38, 55-58: the store rejects the insert of an iteration for a
\* reason of its own (connection lost, statement refused); the loop ends and
\* the error is rethrown.
GenerateInsertFailure(c) ==
  /\ req[c].op = "simulateAIGeneration" /\ req[c].pc = "gen_insert"
  /\ Return(c, req[c], "error_store")
  /\ UNCHANGED <<stores, serials, history>>

----------------------------------------------------------------------------
(* simulateAIGeneration on one stored project, one caller *)

\* "Build a React frontend with TypeScript"
ScenarioPrompt ==
  <<"B", "u", "i", "l", "d", " ", "a", " ", "R", "e", "a", "c", "t", " ",
    "f", "r", "o", "n", "t", "e", "n", "d", " ", "w", "i", "t", "h", " ",
    "T", "y", "p", "e", "S", "c", "r", "i", "p", "t">>

\* Prompts of the stored project: the prompt of the end-to-end scenario,
\* prompts with keywords of several archetypes, keywords in capitals, a
\* keyword inside another word ("rapid"), and "full-stack", which is neither
\* "full stack" nor "fullstack".
PromptInputs ==
  { DefaultPrompt, ApiPrompt,
    ScenarioPrompt,
    <<"f", "u", "l", "l", " ", "s", "t", "a", "c", "k", " ", "r", "e", "a",
    "c", "t", " ", "a", "p", "i">>,
    <<"F", "u", "l", "l", "s", "t", "a", "c", "k">>,
    <<"b", "a", "c", "k", "e", "n", "d", " ", "r", "e", "a", "c", "t">>,
    <<"n", "o", "d", "e", ".", "j", "s", " ", "u", "i">>,
    <<"E", "x", "p", "r", "e", "s", "s", " ", "f", "r", "o", "n", "t", "e",
    "n", "d">>,
    <<"s", "e", "r", "v", "e", "r">>,
    <<"U", "I">>,
    <<"f", "r", "o", "n", "t", "e", "n", "d">>,
    <<"f", "u", "l", "l", "-", "s", "t", "a", "c", "k", " ", "r", "e", "a",
    "c", "t">>,
    <<"r", "a", "p", "i", "d">> }

\* Names of the stored project: "a" and "A 1".
GenerateNameInputs == { <<"a">>, <<"A", " ", "1">> }

\* Largest value of the files serial in SpecGenerate: the files of the
\* largest template.
MaxGenerateFileId == 8

InitOneProject ==
  /\ \E name \in GenerateNameInputs, prompt \in PromptInputs :
       projects = {[Project1 EXCEPT !.name = name, !.ai_prompt = prompt,
                                    !.slug = baseSlugOf(name)]}
  /\ files = {} /\ chatMessages = {} /\ deployments = {}
  /\ projectSeq = 1 /\ fileSeq = 0 /\ chatSeq = 0 /\ deploymentSeq = 0
  /\ req = [c \in Clients |-> Idle]
  /\ watch = TRUE /\ last = NoCall
  /\ issued = {} /\ released = FALSE
  /\ ui = NoWorkspace

NextGenerate ==
  \/ GenerateCall("c1", MaxGenerateFileId)
  \/ GenerateInsert("c1", MaxGenerateFileId)

SpecGenerate == InitOneProject /\ [][NextGenerate]_vars

----------------------------------------------------------------------------
(* The workspace: unnamed/part_001 (ProjectWorkspace) *)

\* FileExplorer.tsx 77-89: the node the create dialog asks for, under the
\* folder parentPath ("/" for the root); part_001 74-81: its content.
WorkspaceFileData(projectId, parentPath, name, isFolder) ==
  [id |-> 0, project_id |-> projectId,
   path |-> IF parentPath = <<"/">> THEN <<"/">> \o name
            ELSE parentPath \o <<"/">> \o name,
   name |-> name,
   content |-> IF isFolder THEN << >> ELSE Lit("// New file"),
   is_folder |-> isFolder,
   parent_path |-> IF parentPath = <<"/">> THEN NULL ELSE parentPath]

\* Lines 65-81 and create_file.ts 9-16: handleFileCreate calls createFile
\* for the project of the workspace.
HandleFileCreateCall(c, dialogs, maxId) ==
  /\ Free(c)
  /\ ui.project_id # 0
  /\ fileSeq < maxId
  /\ \E d \in dialogs :
       LET input == WorkspaceFileData(ui.project_id, d.parent, d.name,
                                      d.is_folder)
           r == [Idle EXCEPT !.op = "createFile", !.input = input,
                             !.project_id = input.project_id,
                             !.flow = "workspace"]
       IN  IF ProjectExists(projects, input.project_id)
             THEN Continue(c, [r EXCEPT !.pc = "cf_insert"])
             ELSE Return(c, r, "error_not_found")
  /\ UNCHANGED <<stores, serials, history>>

\* Lines 91-98: handleFileUpdate calls updateFile for a node of the list,
\* with the new name (FileExplorer.tsx 105-108) or the new content.
HandleFileUpdateCall(c, updates) ==
  /\ Free(c)
  /\ \E file \in ui.files, u \in updates :
       LET r == [Idle EXCEPT !.op = "updateFile", !.file_id = file.id,
                             !.file_update = u, !.flow = "workspace"]
           found == {f \in files : f.id = file.id}
       IN  IF found = {}
             THEN Return(c, r, "error_not_found")
             ELSE Continue(c, [r EXCEPT !.pc = "uf_update"])
  /\ UNCHANGED <<stores, serials, history>>

\* Lines 108-113 and delete_file.ts 7-20: handleFileDelete calls deleteFile
\* for a node of the list and the project of the workspace.
HandleFileDeleteCall(c) ==
  /\ Free(c)
  /\ ui.project_id # 0
  /\ \E file \in ui.files :
       LET r == [Idle EXCEPT !.op = "deleteFile", !.file_id = file.id,
                             !.project_id = ui.project_id,
                             !.flow = "workspace"]
           found == TargetRows(files, file.id, ui.project_id)
       IN  IF found = {}
             THEN Return(c, r, "false")
             ELSE LET target == CHOOSE f \in found : TRUE
                  IN  Continue(c, [r EXCEPT
                        !.file = target,
                        !.pc = IF target.is_folder THEN "df_children"
                               ELSE "df_target"])
  /\ UNCHANGED <<stores, serials, history>>

\* Largest value of the files serial in SpecWorkspace.
MaxWorkspaceFileId == 3

\* What the user enters in the create dialog: a folder s and a file e at
\* the root, a file d in the folder /s.
WorkspaceDialogs ==
  { [parent |-> <<"/">>, name |-> <<"s">>, is_folder |-> TRUE],
    [parent |-> <<"/">>, name |-> <<"e">>, is_folder |-> FALSE],
    [parent |-> <<"/", "s">>, name |-> <<"d">>, is_folder |-> FALSE] }

\* A rename to "n" and an edit of the content to "x".
WorkspaceUpdates ==
  { [NoFileUpdate EXCEPT !.name = {<<"n">>}],
    [NoFileUpdate EXCEPT !.content = {<<"x">>}] }

\* Lines 28-46: the workspace has loaded a project that has no file yet.
InitWorkspace ==
  /\ projects = {Project1, Project2}
  /\ files = {} /\ chatMessages = {} /\ deployments = {}
  /\ projectSeq = 2 /\ fileSeq = 0 /\ chatSeq = 0 /\ deploymentSeq = 0
  /\ req = [c \in Clients |-> Idle]
  /\ watch = TRUE /\ last = NoCall
  /\ issued = {} /\ released = FALSE
  /\ \E p \in {Project1, Project2} :
       ui = [NoWorkspace EXCEPT !.project_id = p.id]

NextWorkspace ==
  \/ HandleFileCreateCall("c1", WorkspaceDialogs, MaxWorkspaceFileId)
  \/ CreateFileInsert("c1", MaxWorkspaceFileId)
  \/ HandleFileUpdateCall("c1", WorkspaceUpdates)
  \/ UpdateFileUpdate("c1")
  \/ HandleFileDeleteCall("c1")
  \/ DeleteFileChildren("c1")
  \/ DeleteFileTarget("c1")

SpecWorkspace == InitWorkspace /\ [][NextWorkspace]_vars

----------------------------------------------------------------------------
(* simulateAIGeneration with inserts that the store may reject *)

\* One prompt for each template: basic, API, React and full-stack.
TemplatePrompts ==
  { DefaultPrompt, ApiPrompt, ScenarioPrompt,
    <<"F", "u", "l", "l", "s", "t", "a", "c", "k">> }

\* Largest value of the files serial in SpecGenerateFail: the files of the
\* largest template.
MaxGenerateFailFileId == 8

InitOneTemplateProject ==
  /\ \E prompt \in TemplatePrompts :
       projects = {[Project2 EXCEPT !.id = 1, !.ai_prompt = prompt]}
  /\ files = {} /\ chatMessages = {} /\ deployments = {}
  /\ projectSeq = 1 /\ fileSeq = 0 /\ chatSeq = 0 /\ deploymentSeq = 0
  /\ req = [c \in Clients |-> Idle]
  /\ watch = TRUE /\ last = NoCall
  /\ issued = {} /\ released = FALSE
  /\ ui = NoWorkspace

NextGenerateFail ==
  \/ GenerateCall("c1", MaxGenerateFailFileId)
  \/ GenerateInsert("c1", MaxGenerateFailFileId)
  \/ GenerateInsertFailure("c1")

SpecGenerateFail == InitOneTemplateProject /\ [][NextGenerateFail]_vars

----------------------------------------------------------------------------
(* simulateAIGeneration called again, two stored projects *)

\* Largest value of the files serial in SpecRegenerate: a node created by
\* hand and two runs of a template of four nodes.
MaxRegenerateFileId == 9

\* Largest value of the files serial that createFile may take in
\* SpecRegenerate.
MaxRegenerateCreateId == 1

\* createFile inputs: the folder /src in each project.
RegenerateInputs ==
  { FileInput(1, <<"/", "s", "r", "c">>, TRUE),
    FileInput(2, <<"/", "s", "r", "c">>, TRUE) }

NextRegenerate ==
  \/ CreateFileCall("c1", RegenerateInputs, MaxRegenerateCreateId)
  \/ CreateFileInsert("c1", MaxRegenerateCreateId)
  \/ GenerateCall("c1", MaxRegenerateFileId)
  \/ GenerateInsert("c1", MaxRegenerateFileId)

SpecRegenerate == InitTwoProjects /\ [][NextRegenerate]_vars

----------------------------------------------------------------------------
(* The file procedures and simulateAIGeneration, one caller *)

\* createFile inputs: a folder /s and a file /s/d in project 1, a folder /s
\* in project 2, and a project that does not exist.
FilesInputs ==
  { FileInput(1, <<"/", "s">>, TRUE),
    FileInput(1, <<"/", "s", "/", "d">>, FALSE),
    FileInput(2, <<"/", "s">>, TRUE),
    FileInput(9, <<"/", "s">>, TRUE) }

\* updateFile inputs: the name alone, the path alone and the three fields
\* together.
FileUpdateInputs ==
  { [NoFileUpdate EXCEPT !.name = {<<"n">>}],
    [NoFileUpdate EXCEPT !.path = {<<"/", "t">>}],
    [name |-> {<<"n">>}, content |-> {<<"x">>}, path |-> {<<"/", "t">>}] }

\* Largest value of the files serial in SpecFiles: the files of one
\* generated project.
MaxFilesFileId == 4

\* Largest value of the files serial at which createFile is still called in
\* SpecFiles.
MaxFilesCreateId == 2

NextFiles ==
  \E c \in {"c1"} :
    \/ CreateFileCall(c, FilesInputs, MaxFilesCreateId)
    \/ CreateFileInsert(c, MaxFilesCreateId)
    \/ UpdateFileCall(c, FileUpdateInputs, MaxFilesFileId)
    \/ UpdateFileUpdate(c)
    \/ DeleteFileCall(c, MaxFilesFileId)
    \/ DeleteFileChildren(c)
    \/ DeleteFileTarget(c)
    \/ GenerateCall(c, MaxFilesFileId)
    \/ GenerateInsert(c, MaxFilesFileId)

SpecFiles == InitTwoProjects /\ [][NextFiles]_vars

----------------------------------------------------------------------------
(* createChatMessage : unnamed/part_004 *)

\* Lines 30-59: the canned reply for the first keyword group the
\* lower-cased message matches.
generateAIResponse(userMessage) ==
  LET message == toLowerCase(userMessage)
  IN  IF \/ includes(message, <<"b", "u", "g">>)
         \/ includes(message, <<"e", "r", "r", "o", "r">>)
         \/ includes(message, <<"i", "s", "s", "u", "e">>)
        THEN Lit("reply/debug")
      ELSE IF \/ includes(message, <<"f", "e", "a", "t", "u", "r", "e">>)
              \/ includes(message, <<"a", "d", "d">>)
              \/ includes(message, <<"i", "m", "p", "l", "e", "m", "e", "n", "t">>)
        THEN Lit("reply/feature")
      ELSE IF \/ includes(message, <<"d", "e", "p", "l", "o", "y">>)
              \/ includes(message, <<"d", "e", "p", "l", "o", "y", "m", "e", "n", "t">>)
        THEN Lit("reply/deploy")
      ELSE IF \/ includes(message, <<"d", "a", "t", "a", "b", "a", "s", "e">>)
              \/ includes(message, <<"d", "a", "t", "a">>)
        THEN Lit("reply/database")
      ELSE IF \/ includes(message, <<"t", "e", "s", "t">>)
              \/ includes(message, <<"t", "e", "s", "t", "i", "n", "g">>)
        THEN Lit("reply/test")
      ELSE IF \/ includes(message, <<"p", "e", "r", "f", "o", "r", "m", "a", "n", "c", "e">>)
              \/ includes(message, <<"o", "p", "t", "i", "m", "i", "z", "e">>)
        THEN Lit("reply/performance")
      ELSE Lit("reply/default:1") \o userMessage \o Lit("reply/default:2")

\* schema.ts 49: created_at defaults to the clock of the store at the insert.
\* The clock never runs backwards past a stored row; whether it has advanced
\* since the latest stored row is the choice of `tick`.
LatestCreatedAt(ms) ==
  IF ms = {} THEN 0
  ELSE CHOOSE t \in {m.created_at : m \in ms} :
         \A m \in ms : m.created_at <= t

\* Lines 5-27: the insert, with no look-up before it; every user id a
\* caller passes is a stored user, so the store checks the project key.
CreateChatMessage(c, messages, ticks, maxId) ==
  /\ Free(c)
  /\ chatSeq < maxId
  /\ \E projectId \in ProjectIdInputs, userId \in UserIds,
        message \in messages, tick \in ticks :
       LET r == [Idle EXCEPT !.op = "createChatMessage",
                             !.project_id = projectId, !.user_id = userId]
           row == [id |-> chatSeq + 1, project_id |-> projectId,
                   user_id |-> userId, message |-> message,
                   response |-> generateAIResponse(message),
                   is_ai_response |-> FALSE,
                   created_at |-> LatestCreatedAt(chatMessages) + tick]
       IN  /\ chatSeq' = chatSeq + 1
           /\ IF ForeignKeyViolated(projects, projectId)
                THEN /\ Return(c, r, "error_fk_violation")
                     /\ UNCHANGED chatMessages
                ELSE /\ chatMessages' = chatMessages \cup {row}
                     /\ Return(c, r, "ok")
  /\ UNCHANGED <<projects, files, deployments, projectSeq, fileSeq,
                 deploymentSeq, history>>

----------------------------------------------------------------------------
(* getChatMessages : get_chat_messages.ts *)

\* Line 10: the rows of the project.
ChatRowsMutant(ms, projectId) == ms

ChatRows(ms, projectId) == {m \in ms : m.project_id = projectId}

\* The lists that hold every row of `rows` exactly once.
Orderings(rows) ==
  {s \in [1..Cardinality(rows) -> rows] :
     \A i, j \in 1..Cardinality(rows) : i # j => s[i] # s[j]}

OrderedByCreatedAtMutant(rows) ==
  {s \in Orderings(rows) :
     \A i, j \in 1..Cardinality(rows) :
       i < j => s[i].created_at >= s[j].created_at}

\* Line 11: ORDER BY created_at ASC; the store may return rows of equal
\* created_at in either order.
OrderedByCreatedAt(rows) ==
  {s \in Orderings(rows) :
     \A i, j \in 1..Cardinality(rows) :
       i < j => s[i].created_at <= s[j].created_at}

\* Lines 6-20: one select, returned as it is.
GetChatMessages(c) ==
  /\ Free(c)
  /\ \E projectId \in ProjectIdInputs :
       \E results \in OrderedByCreatedAt(ChatRows(chatMessages, projectId)) :
         Return(c, [Idle EXCEPT !.op = "getChatMessages",
                                !.project_id = projectId,
                                !.rows = results], "ok")
  /\ UNCHANGED <<stores, serials, history>>

----------------------------------------------------------------------------
(* createDeployment : get_project_deployments.ts 26-56 *)

\* Lines 29-37: the project check.
CreateDeploymentCall(c, maxId) ==
  /\ Free(c)
  /\ deploymentSeq < maxId
  /\ \E projectId \in ProjectIdInputs :
       LET r == [Idle EXCEPT !.op = "createDeployment",
                             !.project_id = projectId]
       IN  IF ProjectExists(projects, projectId)
             THEN Continue(c, [r EXCEPT !.pc = "cd_insert"])
             ELSE Return(c, r, "error_not_found")
  /\ UNCHANGED <<stores, serials, history>>

\* Lines 40-51: the insert of a pending deployment.
CreateDeploymentInsert(c, maxId) ==
  /\ req[c].op = "createDeployment" /\ req[c].pc = "cd_insert"
  /\ deploymentSeq < maxId
  /\ LET r == req[c]
         row == [id |-> deploymentSeq + 1, project_id |-> r.project_id,
                 status |-> "pending", deployment_url |-> NULL,
                 build_logs |-> NULL, completed_at |-> NULL]
     IN  /\ deploymentSeq' = deploymentSeq + 1
         /\ IF ForeignKeyViolated(projects, r.project_id)
              THEN /\ Return(c, r, "error_fk_violation")
                   /\ UNCHANGED deployments
              ELSE /\ deployments' = deployments \cup {row}
                   /\ Return(c, r, "ok")
  /\ UNCHANGED <<projects, files, chatMessages, projectSeq, fileSeq,
                 chatSeq, history>>

----------------------------------------------------------------------------
(* The chat log: createChatMessage, getChatMessages, deleteProject *)

\* Largest value of the chat_messages serial in SpecChat.
MaxChatId == 3

\* "bug" and "hi"
ChatMessages == { <<"b", "u", "g">>, <<"h", "i">> }

\* The clock of the store between two inserts: it has not advanced within
\* its resolution, or it has.
ChatTicks == {0, 1}

NextChat ==
  \/ CreateChatMessage("c1", ChatMessages, ChatTicks, MaxChatId)
  \/ GetChatMessages("c1")
  \/ DeleteProjectCall("c1")
  \/ DeleteProjectDelete("c1")

SpecChat == InitTwoProjects /\ [][NextChat]_vars

----------------------------------------------------------------------------
(* updateDeployment : update_deployment.ts 6-43 *)

\* index.ts 312: z.enum(['pending', 'building', 'deployed', 'failed'])
DeploymentStatuses == {"pending", "building", "deployed", "failed"}

\* The optional fields of updateDeploymentInputSchema.
NoDeploymentUpdate ==
  [status |-> {}, deployment_url |-> {}, build_logs |-> {},
   completed_at |-> {}]

\* An update that leaves the status of a deployed or failed row as it is.
ApplyDeploymentUpdateMutant(d, u) ==
  [d EXCEPT
     !.status = IF u.status = {} \/ d.status \in {"deployed", "failed"}
                  THEN @ ELSE CHOOSE x \in u.status : TRUE,
     !.deployment_url = IF u.deployment_url = {} THEN @
                        ELSE CHOOSE x \in u.deployment_url : TRUE,
     !.build_logs = IF u.build_logs = {} THEN @
                    ELSE CHOOSE x \in u.build_logs : TRUE,
     !.completed_at = IF u.completed_at = {} THEN @
                      ELSE CHOOSE x \in u.completed_at : TRUE]

\* Lines 9-25: updateData, built from the fields that are supplied.
ApplyDeploymentUpdate(d, u) ==
  [d EXCEPT
     !.status = IF u.status = {} THEN @ ELSE CHOOSE x \in u.status : TRUE,
     !.deployment_url = IF u.deployment_url = {} THEN @
                        ELSE CHOOSE x \in u.deployment_url : TRUE,
     !.build_logs = IF u.build_logs = {} THEN @
                    ELSE CHOOSE x \in u.build_logs : TRUE,
     !.completed_at = IF u.completed_at = {} THEN @
                      ELSE CHOOSE x \in u.completed_at : TRUE]

\* Lines 9-25: the call and its updateData.
UpdateDeploymentCall(c, inputs, maxId) ==
  /\ Free(c)
  /\ \E id \in 1..maxId, u \in inputs :
       Continue(c, [Idle EXCEPT !.op = "updateDeployment", !.file_id = id,
                                !.update = u, !.pc = "ud_update"])
  /\ UNCHANGED <<stores, serials, history>>

\* Lines 27-38: one UPDATE ... WHERE id = input.id RETURNING; no row is an
\* error, else the updated row is returned.
UpdateDeploymentUpdate(c) ==
  /\ req[c].op = "updateDeployment" /\ req[c].pc = "ud_update"
  /\ LET r == req[c]
         result == {d \in deployments : d.id = r.file_id}
     IN  IF result = {}
           THEN /\ Return(c, r, "error_not_found")
                /\ UNCHANGED deployments
           ELSE LET old == CHOOSE d \in result : TRUE
                    new == ApplyDeploymentUpdate(old, r.update)
                IN  /\ deployments' = (deployments \ {old}) \cup {new}
                    /\ Return(c, [r EXCEPT !.rows = <<new>>], "ok")
  /\ UNCHANGED <<projects, files, chatMessages, serials, history>>

----------------------------------------------------------------------------
(* handleDeploy : client/src/components/workspace/PreviewPane.tsx 28-68 *)

\* Line 54: `https://${project.slug}.vercel.app`
mockUrl(slug) == Lit("https://") \o slug \o Lit(".vercel.app")

\* Lines 51-55: the input of the updateProject call.
DeployUpdate(project) ==
  [NoUpdate EXCEPT !.is_deployed = {TRUE},
                   !.deployment_url = {mockUrl(project.slug)}]

\* Lines 28-36 and get_project_deployments.ts 29-37: the click, with the
\* project the pane was given, and the look-up of createDeployment.
HandleDeployCall(c, props, maxId) ==
  /\ Free(c)
  /\ deploymentSeq < maxId
  /\ \E project \in props :
       LET r == [Idle EXCEPT !.op = "handleDeploy",
                             !.project_id = project.id,
                             !.project = project]
       IN  IF ProjectExists(projects, project.id)
             THEN Continue(c, [r EXCEPT !.pc = "hd_insert"])
             ELSE Return(c, r, "error_not_found")
  /\ UNCHANGED <<stores, serials, history>>

\* get_project_deployments.ts 40-51: the insert of createDeployment; lines
\* 39-48 of the pane then run the timers of the progress bar.
HandleDeployInsert(c, maxId) ==
  /\ req[c].op = "handleDeploy" /\ req[c].pc = "hd_insert"
  /\ deploymentSeq < maxId
  /\ LET r == req[c]
         row == [id |-> deploymentSeq + 1, project_id |-> r.project_id,
                 status |-> "pending", deployment_url |-> NULL,
                 build_logs |-> NULL, completed_at |-> NULL]
     IN  /\ deploymentSeq' = deploymentSeq + 1
         /\ IF ForeignKeyViolated(projects, r.project_id)
              THEN /\ Return(c, r, "error_fk_violation")
                   /\ UNCHANGED deployments
              ELSE /\ deployments' = deployments \cup {row}
                   /\ Continue(c, [r EXCEPT !.pc = "hd_check",
                                            !.rows = <<row>>])
  /\ UNCHANGED <<projects, files, chatMessages, projectSeq, fileSeq,
                 chatSeq, history>>

\* Lines 51-55 and update_project.ts 9-16: the existence check of
\* updateProject.
HandleDeployCheck(c) ==
  /\ req[c].op = "handleDeploy" /\ req[c].pc = "hd_check"
  /\ IF ProjectExists(projects, req[c].project_id)
       THEN Continue(c, [req[c] EXCEPT !.pc = "hd_update"])
       ELSE Return(c, req[c], "error_not_found")
  /\ UNCHANGED <<stores, serials, history>>

\* update_project.ts 39-54 and lines 57-62 of the pane: the update, whose
\* result, undefined when the row has gone, is handed to onProjectUpdate.
HandleDeployUpdate(c) ==
  /\ req[c].op = "handleDeploy" /\ req[c].pc = "hd_update"
  /\ LET r == req[c]
         rows == {p \in projects : p.id = r.project_id}
     IN  IF rows = {}
           THEN /\ Return(c, [r EXCEPT !.project = NoProject], "ok")
                /\ UNCHANGED projects
           ELSE LET old == CHOOSE p \in rows : TRUE
                    new == ApplyUpdate(old, DeployUpdate(r.project))
                IN  /\ projects' = (projects \ {old}) \cup {new}
                    /\ Return(c, [r EXCEPT !.project = new], "ok")
  /\ UNCHANGED <<files, chatMessages, deployments, serials, history>>

----------------------------------------------------------------------------
(* Deployments: the deploy flow, the deployment procedures, deleteProject *)

\* Largest value of the deployments serial in SpecDeploy.
MaxDeployId == 2

\* The projects a preview pane was opened with.
DeployProps == {Project1, Project2}

\* updateDeployment inputs: each status alone, and the completion of a
\* deployment with its URL "u" and its time 1.
DeploymentUpdateInputs ==
  {[NoDeploymentUpdate EXCEPT !.status = {s}] : s \in DeploymentStatuses}
  \cup {[NoDeploymentUpdate EXCEPT !.status = {"deployed"},
                                   !.deployment_url = {<<"u">>},
                                   !.completed_at = {1}]}

NextDeploy ==
  \/ \E c \in Clients :
       \/ HandleDeployCall(c, DeployProps, MaxDeployId)
       \/ HandleDeployInsert(c, MaxDeployId)
       \/ HandleDeployCheck(c)
       \/ HandleDeployUpdate(c)
  \/ CreateDeploymentCall("c2", MaxDeployId)
  \/ CreateDeploymentInsert("c2", MaxDeployId)
  \/ UpdateDeploymentCall("c2", DeploymentUpdateInputs, MaxDeployId)
  \/ UpdateDeploymentUpdate("c2")
  \/ DeleteProjectCall("c2")
  \/ DeleteProjectDelete("c2")

SpecDeploy == InitTwoProjects /\ [][NextDeploy]_vars

----------------------------------------------------------------------------
(* Project deletion against the writers of dependent rows *)

\* Largest value of the files serial in SpecCascade: the files of one
\* generated project.
MaxCascadeFileId == 4

\* Largest value of the chat_messages and deployments serials in SpecCascade.
MaxCascadeRowId == 1

CascadeInputs == { FileInput(1, <<"/", "s">>, TRUE) }

\* The message offered to createChatMessage in SpecCascade: "bug".
CascadeMessages == { <<"b", "u", "g">> }

\* The clock of the store advances between any two inserts of SpecCascade.
CascadeTicks == {1}

NextCascade ==
  \E c \in Clients :
    \/ DeleteProjectCall(c)
    \/ DeleteProjectDelete(c)
    \/ CreateFileCall(c, CascadeInputs, MaxCascadeFileId)
    \/ CreateFileInsert(c, MaxCascadeFileId)
    \/ CreateChatMessage(c, CascadeMessages, CascadeTicks, MaxCascadeRowId)
    \/ CreateDeploymentCall(c, MaxCascadeRowId)
    \/ CreateDeploymentInsert(c, MaxCascadeRowId)
    \/ GenerateCall(c, MaxCascadeFileId)
    \/ GenerateInsert(c, MaxCascadeFileId)

SpecCascade == InitTwoProjects /\ [][NextCascade]_vars

----------------------------------------------------------------------------
(* Claims about the project store *)

\* C1: in every reachable state of createProject, updateProject and
\* deleteProject calls, no two stored projects have the same slug.
C1_SlugsUnique ==
  \A p \in projects, q \in projects : p.slug = q.slug => p = q

\* C1: two projects of the same name are stored, and a third slug was
\* given up by a rename or a delete.
C1_Witness ==
  /\ released
  /\ \E p \in projects, q \in projects : p.id # q.id /\ p.name = q.name

\* The createProject call of client c stores its project in this step.
InsertSucceeds(c) ==
  /\ req[c].op = "createProject" /\ req[c].pc = "cp_insert"
  /\ req'[c].pc = "idle"
  /\ \E p \in projects' : p.id = projectSeq + 1

\* The slug client c stores was never issued before, and its numeric suffix
\* (0 for the base slug) is greater than that of every slug issued before to
\* a project of the same name.
FreshAndIncreasing(c) ==
  \A i \in issued :
    /\ i.slug # req[c].slug
    /\ i.name = req[c].name => i.suffix < req[c].counter - 1

\* C2 as claimed: creating projects repeatedly with the same name yields
\* strictly increasing suffixes and never a slug that was issued before,
\* also after an earlier project was deleted.
C2_NeverReused ==
  [][\A c \in Clients : InsertSucceeds(c) => FreshAndIncreasing(c)]_vars

\* C2 as amended: as long as no project has been deleted or renamed to
\* another slug, every slug createProject stores was never issued before and
\* its suffix is greater than that of every slug issued before to a project
\* of the same name.
C2_IncreasingUntilReleased ==
  [][\A c \in Clients :
       (InsertSucceeds(c) /\ ~released) => FreshAndIncreasing(c)]_vars

\* C2: two projects of one name were created with increasing suffixes and
\* no slug has been given up.
C2_Witness ==
  /\ ~released
  /\ \E i \in issued, j \in issued :
       i.name = j.name /\ i.suffix < j.suffix

\* C3: a createProject call that reaches its insert ends with its project
\* stored: a unique-constraint violation at the insert is retried with the
\* next candidate, so concurrent calls of one name both succeed.
C3_InsertNeverFails ==
  [][\A c \in Clients :
       (req[c].op = "createProject" /\ req[c].pc = "cp_insert"
          /\ req'[c].pc = "idle")
       => \E p \in projects' : p.id = projectSeq + 1 /\ p.name = req[c].name
     ]_vars

\* ^[a-z0-9]+(-[a-z0-9]+)*$
MatchesSlugPattern(s) ==
  /\ s # << >>
  /\ \A i \in 1..Len(s) : s[i] \in LowerLetters \cup Digits \cup {"-"}
  /\ s[1] # "-" /\ s[Len(s)] # "-"
  /\ \A i \in 1..(Len(s) - 1) : ~(s[i] = "-" /\ s[i + 1] = "-")

\* C4: for every accepted name the slug createProject stores is non-empty
\* and matches ^[a-z0-9]+(-[a-z0-9]+)*$ (the source defines no fallback
\* constant that a slug could be instead).
C4_SlugWellFormed ==
  \A i \in issued : i.slug # << >> /\ MatchesSlugPattern(i.slug)

----------------------------------------------------------------------------
(* Claims about the file tree store *)

\* isDescendantPath: the candidate starts with the folder's path followed
\* immediately by "/".
IsDescendantPath(candidate, ancestorFolderPath) ==
  startsWith(candidate, ancestorFolderPath \o <<"/">>)

\* C5: when deleteFile on a folder F of the project has returned true, F is
\* gone and no node of that project has a path that starts with F.path + "/".
C5_FolderDeleteComplete ==
  (last.op = "deleteFile" /\ last.result = "true" /\ last.file.is_folder)
  => /\ last.file \notin files
     /\ \A f \in files :
          f.project_id = last.file.project_id
          => ~IsDescendantPath(f.path, last.file.path)

\* The rows a step removes from the files table.
RemovedRows == files \ files'

\* C6: every step of a deleteFile call removes only the target and, when the
\* target is a folder, nodes of the same project whose path starts with the
\* target's path followed immediately by "/".
C6_RemovesOnlySubtree ==
  [][\A c \in Clients :
       (req[c].op = "deleteFile" /\ req'[c] # req[c])
       => \A f \in RemovedRows :
            \/ f.id = req[c].file_id
            \/ /\ req[c].file.is_folder
               /\ f.project_id = req[c].file.project_id
               /\ IsDescendantPath(f.path, req[c].file.path)]_vars

\* C7: no step of deleteFile(fileId, projectId) removes or changes a node of
\* another project.
C7_OtherProjectsUntouched ==
  [][\A c \in Clients :
       (req[c].op = "deleteFile" /\ req'[c] # req[c])
       => {f \in files : f.project_id # req[c].project_id}
            = {f \in files' : f.project_id # req[c].project_id}]_vars

\* C7: a folder of one project was deleted together with rows under it while
\* another project holds a node under the textually identical path.
C7_Witness ==
  /\ last.op = "deleteFile" /\ last.result = "true"
  /\ last.file.is_folder /\ last.removed > 1
  /\ \E f \in files :
       /\ f.project_id # last.file.project_id
       /\ IsDescendantPath(f.path, last.file.path)

\* C8: when a deleteFile call on a folder is over, successfully or not,
\* either the folder is still there and the call removed nothing, or the
\* folder is gone and no descendant of it remains.
C8_FolderDeleteAtomic ==
  [][\A c \in Clients :
       (req[c].op = "deleteFile" /\ req[c].file.is_folder
          /\ req[c].pc # "idle" /\ req'[c].pc = "idle")
       => LET F == req[c].file
          IN  \/ F \in files' /\ req[c].removed = 0
              \/ /\ F \notin files'
                 /\ \A f \in files' :
                      f.project_id = F.project_id
                      => ~IsDescendantPath(f.path, F.path)]_vars

----------------------------------------------------------------------------
(* Claims about deleteProject *)

\* The project projectId exists and belongs to somebody other than userId.
WrongOwner(projectId, userId) ==
  \E p \in projects : p.id = projectId /\ p.user_id # userId

\* C9: a deleteProject call whose userId is not the owner of the project
\* returns false, not an error, and the step that returns leaves the project
\* row and every file, chat message and deployment as they were; no step
\* of such a call deletes anything.
C9_WrongOwnerChangesNothing ==
  [][/\ (/\ last' # last
          /\ last'.op = "deleteProject"
          /\ WrongOwner(last'.project_id, last'.user_id))
         => (last'.result = "false" /\ UNCHANGED stores)
     /\ \A c \in Clients :
          (/\ req[c].pc = "dp_delete"
           /\ req'[c] # req[c]
           /\ WrongOwner(req[c].project_id, req[c].user_id))
          => (last'.result = "false" /\ UNCHANGED stores)]_vars

\* A call by a user who is not the owner has returned false while the
\* project has a file, a chat message and a deployment.
C9_Witness ==
  /\ last.op = "deleteProject" /\ last.result = "false"
  /\ WrongOwner(last.project_id, last.user_id)
  /\ \E f \in files : f.project_id = last.project_id
  /\ \E m \in chatMessages : m.project_id = last.project_id
  /\ \E d \in deployments : d.project_id = last.project_id

----------------------------------------------------------------------------
(* Claims about the rows a project owns *)

\* C10: in every reachable state every file, chat message and deployment
\* row references a project row that exists, whatever the interleaving of
\* createFile, createChatMessage, createDeployment and simulateAIGeneration
\* with deleteProject.
C10_DependentsReferenceProject ==
  /\ \A f \in files : ProjectExists(projects, f.project_id)
  /\ \A m \in chatMessages : ProjectExists(projects, m.project_id)
  /\ \A d \in deployments : ProjectExists(projects, d.project_id)

\* deleteProject has removed a project together with a file, a chat
\* message and a deployment of it while another client, which had found
\* the project, is about to insert a row for it.
C10_Witness ==
  /\ last.op = "deleteProject" /\ last.result = "true"
  /\ last.removed >= 4
  /\ \E c \in Clients :
       /\ req[c].pc \in {"cf_insert", "cd_insert", "gen_insert"}
       /\ req[c].project_id = last.project_id

----------------------------------------------------------------------------
(* Claims about simulateAIGeneration *)

\* The simulateAIGeneration call of client c returns its result in this
\* step.
GenerationSucceeds(c) ==
  /\ req[c].op = "simulateAIGeneration" /\ req[c].pc = "gen_insert"
  /\ req'[c].pc = "idle"
  /\ last'.op = "simulateAIGeneration" /\ last'.result = "ok"

\* The rows the call of client c has inserted when it returns: one per
\* iteration of its loop, the last of them in this step.
GeneratedRows(c) == {f \in files' : f.id > fileSeq' - req[c].k}

\* C11: when simulateAIGeneration succeeds, every node it generated whose
\* parent_path is not null has, among the nodes the same call generated, a
\* folder whose path is that parent_path.
C11_GeneratedTreeConsistent ==
  [][\A c \in Clients :
       GenerationSucceeds(c)
       => \A f \in GeneratedRows(c) :
            f.parent_path # NULL
            => \E g \in GeneratedRows(c) :
                 g.is_folder /\ g.path = f.parent_path]_vars

\* C11: a generation has succeeded and stored a node two folders deep,
\* whose parent is itself the child of a folder.
C11_Witness ==
  /\ last.op = "simulateAIGeneration" /\ last.result = "ok"
  /\ \E f \in files, g \in files :
       /\ ~f.is_folder /\ f.parent_path = g.path
       /\ g.is_folder /\ g.parent_path # NULL

----------------------------------------------------------------------------
(* Claims about the shape of a project's file tree *)

\* C12: in every reachable state each file node with a non-null parent_path
\* has, in the same project, a folder whose path equals that parent_path.
C12_ParentFolderExists ==
  \A f \in files :
    f.parent_path # NULL
    => \E g \in files :
         /\ g.project_id = f.project_id
         /\ g.is_folder /\ g.path = f.parent_path

\* C13: in every reachable state no two file nodes of the same project have
\* the same path.
C13_PathUniqueInProject ==
  \A f \in files, g \in files :
    (f.project_id = g.project_id /\ f.path = g.path) => f.id = g.id

----------------------------------------------------------------------------
(* Claims about the prompt classifier and the templates *)

FullStackKeywords ==
  { <<"f", "u", "l", "l", " ", "s", "t", "a", "c", "k">>,
    <<"f", "u", "l", "l", "s", "t", "a", "c", "k">> }

ApiKeywords ==
  { <<"a", "p", "i">>, <<"b", "a", "c", "k", "e", "n", "d">>,
    <<"s", "e", "r", "v", "e", "r">>, <<"e", "x", "p", "r", "e", "s", "s">>,
    <<"n", "o", "d", "e", ".", "j", "s">> }

FrontendKeywords ==
  { <<"r", "e", "a", "c", "t">>, <<"f", "r", "o", "n", "t", "e", "n", "d">>, <<"u", "i">> }

\* The lower-cased prompt contains one of the keywords.
HasKeyword(prompt, keywords) ==
  \E k \in keywords : includes(toLowerCase(prompt), k)

\* The template the first-match rule FullStack, API, Frontend, Basic gives.
FirstMatchTemplate(prompt, projectName) ==
  IF HasKeyword(prompt, FullStackKeywords)
    THEN generateFullStackProject(projectName)
  ELSE IF HasKeyword(prompt, ApiKeywords)
    THEN generateAPIProject(projectName)
  ELSE IF HasKeyword(prompt, FrontendKeywords)
    THEN generateReactProject(projectName)
  ELSE generateBasicProject(projectName)

ContainsVerbatim(text, part) ==
  \E i \in 1..(Len(text) + 1), j \in 0..Len(text) :
    SubSeq(text, i, j) = part

\* C15: when simulateAIGeneration has succeeded for a project whose prompt
\* is "Build a React frontend with TypeScript", the stored nodes of the
\* project contain a folder at /src, a folder at /public and a file named
\* App.* whose content contains the project's name verbatim.
C15_ReactScenario ==
  \A p \in projects :
    (/\ last.op = "simulateAIGeneration" /\ last.result = "ok"
     /\ last.project_id = p.id
     /\ p.ai_prompt = ScenarioPrompt)
    => /\ \E f \in files :
            f.project_id = p.id /\ f.is_folder /\ f.path = <<"/", "s", "r", "c">>
       /\ \E f \in files :
            f.project_id = p.id /\ f.is_folder /\ f.path = <<"/", "p", "u", "b", "l", "i", "c">>
       /\ \E f \in files :
            /\ f.project_id = p.id /\ ~f.is_folder
            /\ startsWith(f.name, <<"A", "p", "p", ".">>)
            /\ ContainsVerbatim(f.content, p.name)

\* C15: the generation has succeeded for the scenario's prompt and a
\* project whose name holds a capital and a space.
C15_Witness ==
  /\ last.op = "simulateAIGeneration" /\ last.result = "ok"
  /\ \E p \in projects :
       /\ p.id = last.project_id /\ p.ai_prompt = ScenarioPrompt
       /\ p.name = <<"A", " ", "1">>
  /\ files # {}


\* C16: a simulateAIGeneration call for a project id that names no stored
\* project returns a not-found error, and the step in which it returns
\* leaves every table, the files of every project included, as it was.
C16_GenerationNotFound ==
  [][(/\ last' # last
      /\ last'.op = "simulateAIGeneration"
      /\ ~ProjectExists(projects, last'.project_id))
     => (last'.result = "error_not_found" /\ UNCHANGED <<stores, serials>>)
    ]_vars

\* C16: a call for a missing project has returned not-found while the
\* store holds generated files of a project.
C16_Witness ==
  /\ last.op = "simulateAIGeneration" /\ last.result = "error_not_found"
  /\ ~ProjectExists(projects, last.project_id)
  /\ files # {}

----------------------------------------------------------------------------
(* Claims about the results of the file procedures *)

\* C17: a deleteFile(fileId, projectId) call returns false, not an error,
\* and changes no table whenever no node has both that id and that
\* project_id.
C17_DeleteFileNoMatch ==
  [][(/\ last' # last
      /\ last'.op = "deleteFile"
      /\ ~ \E f \in files :
             f.id = last'.file_id /\ f.project_id = last'.project_id)
     => (last'.result = "false" /\ UNCHANGED stores)]_vars

\* C17: deleteFile has returned false for the id of a node that belongs to
\* another project than the one passed.
C17_Witness ==
  /\ last.op = "deleteFile" /\ last.result = "false"
  /\ \E f \in files :
       f.id = last.file_id /\ f.project_id # last.project_id


\* C18: a createFile call whose project_id names no stored project returns
\* a not-found error and inserts nothing; a call for a stored project
\* inserts exactly one node, which carries the input's project_id, path,
\* name, content, is_folder and parent_path under an id no node was given
\* before, and returns that node.
C18_CreateFileContract ==
  [][/\ (/\ last' # last
          /\ last'.op = "createFile"
          /\ ~ \E p \in projects : p.id = last'.project_id)
         => (last'.result = "error_not_found" /\ UNCHANGED stores)
     /\ \A c \in Clients :
          (/\ req[c].op = "createFile" /\ req[c].pc = "cf_insert"
           /\ req'[c] # req[c]
           /\ \E p \in projects : p.id = req[c].input.project_id)
          => \E row \in files' :
               /\ files' = files \cup {row} /\ row \notin files
               /\ row.id \notin 0..fileSeq
               /\ [row EXCEPT !.id = 0] = req[c].input
               /\ last'.result = "ok" /\ last'.file = row
               /\ UNCHANGED <<projects, chatMessages, deployments>>]_vars

\* C18: createFile has returned not-found for a missing project while the
\* store holds a node that an earlier createFile inserted.
C18_Witness ==
  /\ last.op = "createFile" /\ last.result = "error_not_found"
  /\ ~ProjectExists(projects, last.project_id)
  /\ \E f \in files : f.parent_path # NULL

----------------------------------------------------------------------------
(* Claims about updateProject and updateFile *)

\* C19: an updateProject call that supplies a name for a stored project
\* completes with the project renamed and holding a slug that no other
\* project holds, also when the new name's base slug is held by another
\* project.
C19_RenameCompletesUnique ==
  [][\A c \in Clients :
       (/\ req[c].op = "updateProject" /\ req[c].pc = "up_update"
        /\ req'[c] # req[c]
        /\ req[c].update.name # {}
        /\ \E p \in projects : p.id = req[c].project_id)
       => \E p \in projects' :
            /\ p.id = req[c].project_id
            /\ p.name \in req[c].update.name
            /\ \A q \in projects' : q.id # p.id => q.slug # p.slug]_vars


\* C20: an updateFile call for a stored node replaces, in that node alone,
\* the fields supplied among name, content and path; the node keeps its id,
\* project_id, is_folder and parent_path and every other node, a descendant
\* of a moved folder included, is unchanged.  A call for an id that names no
\* node returns a not-found error and changes nothing.
C20_UpdateFileFrame ==
  [][/\ (/\ last' # last
          /\ last'.op = "updateFile"
          /\ ~ \E f \in files : f.id = last'.file_id)
         => (last'.result = "error_not_found" /\ UNCHANGED stores)
     /\ \A c \in Clients :
          (/\ req[c].op = "updateFile" /\ req[c].pc = "uf_update"
           /\ req'[c] # req[c])
          => \A old \in files :
               old.id = req[c].file_id
               => LET u == req[c].file_update
                      new == [id |-> old.id,
                              project_id |-> old.project_id,
                              is_folder |-> old.is_folder,
                              parent_path |-> old.parent_path,
                              name |-> IF u.name = {} THEN old.name
                                       ELSE CHOOSE n \in u.name : TRUE,
                              content |-> IF u.content = {} THEN old.content
                                          ELSE CHOOSE x \in u.content : TRUE,
                              path |-> IF u.path = {} THEN old.path
                                       ELSE CHOOSE x \in u.path : TRUE]
                  IN  /\ files' = (files \ {old}) \cup {new}
                      /\ last'.result = "ok" /\ last'.file = new
                      /\ UNCHANGED <<projects, chatMessages, deployments>>
    ]_vars

\* C20: updateFile has moved a folder to another path while a node whose
\* parent_path is the folder's former path is stored.
C20_Witness ==
  /\ last.op = "updateFile" /\ last.result = "ok"
  /\ last.file.is_folder
  /\ last.file.path = <<"/", "t">> /\ last.file.name = <<"s">>
  /\ \E g \in files :
       /\ g.project_id = last.file.project_id
       /\ g.parent_path = <<"/", "s">> /\ g.path = <<"/", "s", "/", "d">>


----------------------------------------------------------------------------
(* C21 *)

\* A step removes or changes a stored message only together with the
\* deletion of its project.
ChatLogAppendOnly ==
  /\ \A m \in chatMessages :
       m \in chatMessages' \/ ~(\E p \in projects' : p.id = m.project_id)
  /\ \A m \in chatMessages' \ chatMessages :
       \A old \in chatMessages : old.id < m.id

\* The list a getChatMessages call returns holds the stored messages of its
\* project and no other, each once.
ReturnsProjectMessages ==
  /\ {last'.rows[i] : i \in 1..Len(last'.rows)}
       = {m \in chatMessages : m.project_id = last'.project_id}
  /\ Len(last'.rows)
       = Cardinality({m \in chatMessages : m.project_id = last'.project_id})

----------------------------------------------------------------------------
(* C22 *)

\* The stored nodes of a project.
NodesOf(fs, projectId) == {f \in fs : f.project_id = projectId}

\* The nodes the simulateAIGeneration call of client c has inserted: one
\* for each iteration before its k-th, which took the latest ids.
InsertedSoFar(c) == {f \in files : f.id > fileSeq - (req[c].k - 1)}

\* Client c runs simulateAIGeneration on a project that held no node when
\* the call began: the project's nodes are the ones this call inserted.
GeneratingFromEmpty(c) ==
  /\ req[c].op = "simulateAIGeneration" /\ req[c].pc = "gen_insert"
  /\ NodesOf(files, req[c].project_id) = InsertedSoFar(c)

\* C22: while simulateAIGeneration runs on a project with no prior nodes,
\* each step of it that changes the file store inserts exactly the next node
\* of the template, and after the step every stored node of the project with
\* a non-null parent_path has its parent folder stored; a step that fails
\* leaves the nodes stored so far as they are.
C22_InsertOrderKeepsParents ==
  [][\A c \in Clients :
       (GeneratingFromEmpty(c) /\ req'[c] # req[c])
       => LET generatedFiles ==
                generateFilesFromPrompt(req[c].project.ai_prompt,
                                        req[c].project.name)
              next == generatedFiles[req[c].k]
          IN  /\ \/ files' = files
                 \/ \E row \in files' \ files :
                      /\ files' = files \cup {row}
                      /\ \A f \in files : f.id < row.id
                      /\ row.project_id = req[c].project_id
                      /\ row.path = next.path
                      /\ row.name = next.name
                      /\ row.content = next.content
                      /\ row.is_folder = next.is_folder
              /\ \A f \in NodesOf(files', req[c].project_id) :
                   f.parent_path # NULL
                   => \E g \in NodesOf(files', req[c].project_id) :
                        g.is_folder /\ g.path = f.parent_path]_vars

\* C22: a generation on a project without prior nodes has stored a folder
\* inside a folder and has more nodes to insert.
C22_Witness ==
  /\ req["c1"].op = "simulateAIGeneration" /\ req["c1"].pc = "gen_insert"
  /\ NodesOf(files, req["c1"].project_id)
       = {f \in files : f.id > fileSeq - (req["c1"].k - 1)}
  /\ \E f \in files : f.is_folder /\ f.parent_path # NULL

----------------------------------------------------------------------------
(* C23 *)

\* The simulateAIGeneration call of client c ends in this step with an
\* error of one of its inserts.
GenerationInsertFails(c) ==
  /\ req[c].op = "simulateAIGeneration" /\ req[c].pc = "gen_insert"
  /\ req'[c].pc = "idle"
  /\ last'.result # "ok"

\* C23: when the k-th insert of simulateAIGeneration fails, the call ends
\* with that error in the same step, so that it inserts no later node; the
\* failing insert stores nothing, and the k-1 nodes the call inserted before
\* are all still stored.
C23_FailureKeepsEarlierNodes ==
  [][\A c \in Clients :
       GenerationInsertFails(c)
       => /\ last'.op = "simulateAIGeneration"
          /\ last'.result \in {"error_store", "error_fk_violation"}
          /\ req'[c] = Idle
          /\ files' = files
          /\ Cardinality({f \in NodesOf(files', req[c].project_id) :
                            f.id > fileSeq - (req[c].k - 1)}) = req[c].k - 1]_vars

\* C23: the third insert of a generation has failed and the two nodes
\* inserted before it are stored.
C23_Witness ==
  /\ last.op = "simulateAIGeneration" /\ last.result = "error_store"
  /\ Cardinality(NodesOf(files, last.project_id)) = 2
  /\ req["c1"] = Idle

----------------------------------------------------------------------------
(* C24 *)

\* The simulateAIGeneration call of client c takes a step.
GenerationStep(c) ==
  /\ req[c].op = "simulateAIGeneration" /\ req[c].pc = "gen_insert"
  /\ req'[c] # req[c]

\* C24: no step of simulateAIGeneration changes a project row or a node of
\* another project, and when the call succeeds the project it returns is
\* the row it loaded, unchanged in the store, and the node list it returns
\* is the synthesized list, which the latest stored nodes of the project
\* follow node for node in template order.
C24_GenerationFrame ==
  [][\A c \in Clients :
       /\ GenerationStep(c)
          => /\ projects' = projects
             /\ \A f \in files \cup files' :
                  f.project_id # req[c].project_id
                  => (f \in files /\ f \in files')
       /\ (GenerationStep(c) /\ req'[c].pc = "idle" /\ last'.result = "ok")
          => LET generatedFiles ==
                   generateFilesFromPrompt(req[c].project.ai_prompt,
                                           req[c].project.name)
                 n == Len(generatedFiles)
             IN  /\ last'.project = req[c].project
                 /\ last'.project \in projects'
                 /\ last'.project.id = last'.project_id
                 /\ last'.rows = generatedFiles
                 /\ \A i \in 1..n :
                      \E f \in NodesOf(files', last'.project_id) :
                        /\ f.id = fileSeq' - n + i
                        /\ f.path = generatedFiles[i].path
                        /\ f.name = generatedFiles[i].name
                        /\ f.content = generatedFiles[i].content
                        /\ f.is_folder = generatedFiles[i].is_folder]_vars

\* C24: a generation has succeeded for one project while the other project
\* holds a node.
C24_Witness ==
  /\ last.op = "simulateAIGeneration" /\ last.result = "ok"
  /\ \E f \in files : f.project_id # last.project_id
  /\ Len(last.rows) = 4


----------------------------------------------------------------------------
(* C25 *)

\* The n-th candidate of the sequence base, base-1, base-2, ...
NthCandidate(base, n) ==
  IF n = 0 THEN base ELSE base \o <<"-">> \o NumberToString(n)

\* C25: createProject tries the candidates base, base-1, base-2, ... in
\* this order, one look-up each: a look-up that finds its candidate held by
\* a project, of whatever name, moves on to the next candidate, a look-up
\* that finds it held by none ends the search, and the insert that follows
\* stores that candidate as the slug.
C25_FirstUntakenCandidate ==
  [][\A c \in Clients :
       LET r == req[c]
           n == r.counter - 1
       IN  /\ (r.op = "createProject" /\ r.pc = "cp_lookup"
                /\ req'[c] # r)
              => /\ r.baseSlug = baseSlugOf(r.name)
                 /\ r.slug = NthCandidate(r.baseSlug, n)
                 /\ IF \E p \in projects : p.slug = r.slug
                      THEN /\ req'[c].pc = "cp_lookup"
                           /\ req'[c].counter = r.counter + 1
                           /\ req'[c].slug = NthCandidate(r.baseSlug, n + 1)
                      ELSE /\ req'[c].pc = "cp_insert"
                           /\ req'[c].counter = r.counter
                           /\ req'[c].slug = r.slug
           /\ (r.op = "createProject" /\ r.pc = "cp_insert"
                /\ req'[c] # r)
              => /\ r.slug = NthCandidate(r.baseSlug, n)
                 /\ \A p \in projects' \ projects :
                      p.slug = r.slug /\ p.name = r.name]_vars

\* C25: a project was stored as base-2 while base-1 is held by a project of
\* another name.
C25_Witness ==
  \E i \in issued :
    /\ i.suffix = 2
    /\ \E p \in projects :
         /\ p.slug = NthCandidate(baseSlugOf(i.name), 1)
         /\ p.name # i.name
    /\ \E p \in projects : p.slug = i.slug /\ p.name = i.name


----------------------------------------------------------------------------
(* C29 *)

\* The look-ups the createProject call of client c has performed: counter
\* starts at 1 and grows by one with each candidate found held.
LookupsDone(c) ==
  IF req[c].pc = "cp_lookup" THEN req[c].counter - 1 ELSE req[c].counter

\* C29: with no concurrent writer, the slug search of createProject has
\* performed at most n look-ups while it goes on and at most n + 1 when it
\* has found its candidate, n being the number of stored projects, and every
\* search reaches the insert.
C29_SlugSearchTerminates ==
  /\ [](req["c1"].op = "createProject" /\ req["c1"].pc = "cp_lookup"
          => LookupsDone("c1") <= Cardinality(projects))
  /\ [](req["c1"].op = "createProject" /\ req["c1"].pc = "cp_insert"
          => /\ LookupsDone("c1") <= Cardinality(projects) + 1
             /\ ~(\E p \in projects : p.slug = req["c1"].slug))
  /\ (req["c1"].op = "createProject" /\ req["c1"].pc = "cp_lookup")
       ~> (req["c1"].op = "createProject" /\ req["c1"].pc = "cp_insert")

\* C29: with two projects stored, a search has taken three look-ups.
C29_Witness ==
  /\ req["c1"].op = "createProject" /\ req["c1"].pc = "cp_insert"
  /\ Cardinality(projects) = 2
  /\ req["c1"].counter = 3


----------------------------------------------------------------------------
(* C26 *)

\* The updateDeployment call of client c performs its update in this step.
DeploymentUpdateStep(c) ==
  /\ req[c].op = "updateDeployment" /\ req[c].pc = "ud_update"
  /\ req'[c].pc = "idle"

\* C26: a deployment row appears only as a pending row without URL, logs
\* and completion time, for a stored project; a row changes only by an
\* updateDeployment call that names it; such a call that names a stored row
\* and supplies a status succeeds and leaves the row with that status,
\* whatever its status was; and a row disappears only together with its
\* project.
C26_DeploymentLifecycle ==
  [][/\ \A d \in deployments' :
          (\A old \in deployments : old.id # d.id)
          => /\ d.status = "pending"
             /\ d.deployment_url = NULL
             /\ d.build_logs = NULL
             /\ d.completed_at = NULL
             /\ \E p \in projects : p.id = d.project_id
     /\ \A d \in deployments :
          (\A new \in deployments' : new.id # d.id)
          => ~(\E p \in projects' : p.id = d.project_id)
     /\ \A d \in deployments, new \in deployments' :
          (new.id = d.id /\ new # d)
          => \E c \in Clients :
               DeploymentUpdateStep(c) /\ req[c].file_id = d.id
     /\ \A c \in Clients :
          DeploymentUpdateStep(c)
          => \A d \in deployments :
               d.id = req[c].file_id
               => /\ last'.op = "updateDeployment" /\ last'.result = "ok"
                  /\ \E new \in deployments' :
                       /\ new.id = d.id /\ new.project_id = d.project_id
                       /\ \A s \in req[c].update.status : new.status = s
    ]_vars

\* C26: an updateDeployment call has moved a deployment that had been
\* completed, with its URL, back to pending.
C26_Witness ==
  /\ last.op = "updateDeployment" /\ last.result = "ok"
  /\ Len(last.rows) = 1
  /\ last.rows[1].status = "pending"
  /\ last.rows[1].deployment_url # NULL
  /\ last.rows[1] \in deployments


----------------------------------------------------------------------------
(* C30 *)

\* The handleDeploy flow of client c ends in this step.
DeployFlowEnds(c) ==
  /\ req[c].op = "handleDeploy" /\ req[c].pc # "idle"
  /\ req'[c].pc = "idle"

\* C30: when handleDeploy completes without an error, the project is stored
\* with is_deployed true and a deployment_url, and the deployment the flow
\* created is stored with status deployed; when a call of the flow fails,
\* the flow leaves the project row as it was.
C30_DeployFlowCompletes ==
  [][\A c \in Clients :
       DeployFlowEnds(c)
       => IF last'.result = "ok"
            THEN /\ \E p \in projects' :
                      /\ p.id = req[c].project_id
                      /\ p.is_deployed
                      /\ p.deployment_url # NULL
                 /\ \E d \in deployments' :
                      /\ d.id = req[c].rows[1].id
                      /\ d.status = "deployed"
            ELSE projects' = projects]_vars


----------------------------------------------------------------------------
(* C27 *)

\* C27: a simulateAIGeneration call that follows a successful
\* simulateAIGeneration call for the same project, with no call in between,
\* leaves the file nodes of the project as the first call left them.
C27_GenerationIdempotent ==
  [][\A c \in Clients :
       (/\ GenerationStep(c)
        /\ last.op = "simulateAIGeneration" /\ last.result = "ok"
        /\ last.project_id = req[c].project_id)
       => NodesOf(files', req[c].project_id)
            = NodesOf(files, req[c].project_id)]_vars


----------------------------------------------------------------------------
(* C28 *)

\* C28: whenever the workspace awaits no call, its file list holds the ids
\* of the nodes the store holds for its project, and the selected file, if
\* any, is a node of the store.
C28_LocalListMatchesStore ==
  Free("c1")
  => /\ {f.id : f \in ui.files}
          = {f.id : f \in NodesOf(files, ui.project_id)}
     /\ ui.selectedFile # NoFile
          => \E f \in files : f.id = ui.selectedFile.id

====
